---- MODULE Spec2Model ----
(***************************************************************************)
(* vitalflow: the query-routing state machine (intake -> planner ->        *)
(* data_agent -> summarizer, as wired in src/src/graph.mts), the params    *)
(* merge, and series construction from raw observation records.            *)
(*                                                                         *)
(* JavaScript strings are sequences of one-character strings, so that      *)
(* toLowerCase, includes and the regular expressions of intakeNode.mts are *)
(* computed character by character.  JavaScript values are tagged records  *)
(* (Undef, Null, Num, Str, Arr, NaN), and a JavaScript object is a         *)
(* function whose DOMAIN is the set of its own keys: an own key may hold   *)
(* Undef, which is what object spread copies.                              *)
(***************************************************************************)
EXTENDS Integers, Sequences, FiniteSets, TLC

(***************************************************************************)
(* JavaScript values.                                                      *)
(***************************************************************************)
Undef == [t |-> "undefined"]
Null == [t |-> "null"]
NaN == [t |-> "NaN"]
\* a finite number: the fraction n/d in lowest terms, d > 0
Num(n) == [t |-> "number", n |-> n, d |-> 1]
Str(s) == [t |-> "string", v |-> s]
Arr(a) == [t |-> "array", v |-> a]

\* x ?? y
Nullish(x) == x = Undef \/ x = Null
Coalesce(x, y) == IF Nullish(x) THEN y ELSE x

\* Boolean(x) / the truthiness test of `if (x)`, `x ? a : b`, `!x`
Truthy(x) ==
  CASE x.t = "undefined" -> FALSE
    [] x.t = "null" -> FALSE
    [] x.t = "NaN" -> FALSE
    [] x.t = "number" -> x.n # 0
    [] x.t = "string" -> Len(x.v) > 0
    [] OTHER -> TRUE

\* o.k and o?.k on an object (a function over its own keys)
Get(o, k) == IF k \in DOMAIN o THEN o[k] ELSE Undef

\* {...a, ...b}: every own key of b, whatever it holds, overrides a's
Spread(a, b) ==
  [k \in (DOMAIN a) \cup (DOMAIN b) |-> IF k \in DOMAIN b THEN b[k] ELSE a[k]]

EmptyObj == [k \in {} |-> Undef]

(***************************************************************************)
(* Arithmetic on finite numbers, exact (the code computes in binary        *)
(* floating point).                                                        *)
(***************************************************************************)
Abs(x) == IF x < 0 THEN -x ELSE x
RECURSIVE Gcd(_, _)
Gcd(a, b) == IF b = 0 THEN a ELSE Gcd(b, a % b)

Rat(n, d) ==
  LET g == Gcd(Abs(n), Abs(d))
      sg == IF d < 0 THEN -1 ELSE 1
  IN [t |-> "number", n |-> sg * (n \div g), d |-> sg * (d \div g)]

Add(x, y) ==
  LET l == (x.d \div Gcd(x.d, y.d)) * y.d
  IN Rat(x.n * (l \div x.d) + y.n * (l \div y.d), l)
Neg(x) == [x EXCEPT !.n = -x.n]
Sub(x, y) == Add(x, Neg(y))
Mul(x, y) ==
  LET g1 == Gcd(Abs(x.n), y.d)
      g2 == Gcd(Abs(y.n), x.d)
  IN IF x.n = 0 \/ y.n = 0 THEN Num(0)
     ELSE Rat((x.n \div g1) * (y.n \div g2), (x.d \div g2) * (y.d \div g1))
\* x / y for y # 0
Div(x, y) == Mul(x, IF y.n < 0 THEN [y EXCEPT !.n = -y.d, !.d = -y.n]
                    ELSE [y EXCEPT !.n = y.d, !.d = y.n])
\* the sign of x - y
Cmp(x, y) ==
  LET l == (x.d \div Gcd(x.d, y.d)) * y.d
      a == x.n * (l \div x.d)
      b == y.n * (l \div y.d)
  IN IF a < b THEN -1 ELSE IF a > b THEN 1 ELSE 0
Less(x, y) == Cmp(x, y) < 0
Geq(x, y) == Cmp(x, y) >= 0
Greater(x, y) == Cmp(x, y) > 0

RECURSIVE Sum(_)
Sum(xs) == IF xs = <<>> THEN Num(0) ELSE Add(Head(xs), Sum(Tail(xs)))

(***************************************************************************)
(* Characters and strings.                                                 *)
(***************************************************************************)
UpperCase ==
  <<"A","B","C","D","E","F","G","H","I","J","K","L","M",
    "N","O","P","Q","R","S","T","U","V","W","X","Y","Z">>
LowerCase ==
  <<"a","b","c","d","e","f","g","h","i","j","k","l","m",
    "n","o","p","q","r","s","t","u","v","w","x","y","z">>
Digits == <<"0","1","2","3","4","5","6","7","8","9">>

Range(s) == {s[i] : i \in DOMAIN s}

IsDigit(c) == c \in Range(Digits)
IsLetter(c) == c \in Range(UpperCase) \cup Range(LowerCase)
\* \w
IsWordChar(c) == IsLetter(c) \/ IsDigit(c) \/ c = "_"
\* \s (the only white space of the sample queries is the blank)
IsSpace(c) == c = " "

LowerChar(c) ==
  IF c \in Range(UpperCase)
  THEN LowerCase[CHOOSE i \in DOMAIN UpperCase : UpperCase[i] = c]
  ELSE c

\* String.prototype.toLowerCase
ToLowerCase(s) == [i \in DOMAIN s |-> LowerChar(s[i])]

\* the needle occurs in s at position i (1-based)
MatchAt(s, i, needle) ==
  /\ i >= 1
  /\ i + Len(needle) - 1 <= Len(s)
  /\ \A j \in 1..Len(needle) : s[i + j - 1] = needle[j]

\* the same, ignoring letter case (the regular expressions' i flag)
MatchAtI(s, i, needle) == MatchAt(ToLowerCase(s), i, ToLowerCase(needle))

\* String.prototype.includes
Includes(s, needle) == \E i \in 1..(Len(s) + 1) : MatchAt(s, i, needle)

\* String.prototype.trim
RECURSIVE TrimLeft(_)
TrimLeft(s) == IF s # <<>> /\ IsSpace(Head(s)) THEN TrimLeft(Tail(s)) ELSE s
RECURSIVE TrimRight(_)
TrimRight(s) ==
  IF s # <<>> /\ IsSpace(s[Len(s)]) THEN TrimRight(SubSeq(s, 1, Len(s) - 1)) ELSE s
Trim(s) == TrimRight(TrimLeft(s))

\* \b at the gap before position i
WordBoundary(s, i) ==
  LET before == i >= 2 /\ i - 1 <= Len(s) /\ IsWordChar(s[i - 1])
      after == i >= 1 /\ i <= Len(s) /\ IsWordChar(s[i])
  IN before # after

\* the length of the longest run of characters of class C from position i
RECURSIVE RunLen(_, _, _)
RunLen(s, i, C) ==
  IF i >= 1 /\ i <= Len(s) /\ s[i] \in C THEN 1 + RunLen(s, i + 1, C) ELSE 0

DigitClass == Range(Digits)
LetterClass == Range(UpperCase) \cup Range(LowerCase)
SpaceClass == {" "}

\* parseInt(digits, 10) of a non-empty run of decimal digits
DigitValue(c) == (CHOOSE i \in DOMAIN Digits : Digits[i] = c) - 1
RECURSIVE ParseInt(_)
ParseInt(ds) ==
  IF ds = <<>> THEN 0
  ELSE 10 * ParseInt(SubSeq(ds, 1, Len(ds) - 1)) + DigitValue(ds[Len(ds)])

(***************************************************************************)
(* Date: new Date(text), +d, d.toISOString().  An instant is kept as whole *)
(* minutes since the epoch plus the milliseconds within the minute, so     *)
(* that it fits the model checker's integers.                              *)
(***************************************************************************)
InvalidDate == [t |-> "invalidDate"]
DateVal(min, ms) == [t |-> "date", min |-> min, ms |-> ms]

\* days since 1970-01-01 of a civil date, and back (proleptic Gregorian)
DaysFromCivil(y, m, d) ==
  LET yy == IF m <= 2 THEN y - 1 ELSE y
      era == yy \div 400
      yoe == yy - era * 400
      doy == (153 * (IF m > 2 THEN m - 3 ELSE m + 9) + 2) \div 5 + d - 1
      doe == yoe * 365 + yoe \div 4 - yoe \div 100 + doy
  IN era * 146097 + doe - 719468

CivilFromDays(z0) ==
  LET z == z0 + 719468
      era == z \div 146097
      doe == z - era * 146097
      yoe == (doe - doe \div 1460 + doe \div 36524 - doe \div 146096) \div 365
      doy == doe - (365 * yoe + yoe \div 4 - yoe \div 100)
      mp == (5 * doy + 2) \div 153
      d == doy - (153 * mp + 2) \div 5 + 1
      m == IF mp < 10 THEN mp + 3 ELSE mp - 9
  IN [y |-> yoe + era * 400 + (IF m <= 2 THEN 1 ELSE 0), m |-> m, d |-> d]

IsLeap(y) == (y % 4 = 0 /\ y % 100 # 0) \/ y % 400 = 0
DaysInMonth(y, m) ==
  IF m = 2 THEN (IF IsLeap(y) THEN 29 ELSE 28)
  ELSE IF m \in {4, 6, 9, 11} THEN 30 ELSE 31

AllDigits(s, i, n) == i >= 1 /\ i + n - 1 <= Len(s) /\ RunLen(s, i, DigitClass) >= n
NumAt(s, i, n) == ParseInt(SubSeq(s, i, i + n - 1))

\* the date-time string format of ECMAScript, in the three shapes every host
\* reads the same way: YYYY-MM, YYYY-MM-DD and YYYY-MM-DDTHH:mm:ss.sssZ
IsoYearMonth(s) ==
  /\ Len(s) = 7 /\ AllDigits(s, 1, 4) /\ s[5] = "-" /\ AllDigits(s, 6, 2)
  /\ NumAt(s, 6, 2) \in 1..12
IsoDateOnly(s) ==
  /\ Len(s) = 10 /\ AllDigits(s, 1, 4) /\ s[5] = "-" /\ AllDigits(s, 6, 2)
  /\ s[8] = "-" /\ AllDigits(s, 9, 2)
  /\ NumAt(s, 6, 2) \in 1..12
  /\ NumAt(s, 9, 2) \in 1..DaysInMonth(NumAt(s, 1, 4), NumAt(s, 6, 2))
IsoInstant(s) ==
  /\ Len(s) = 24 /\ IsoDateOnly(SubSeq(s, 1, 10))
  /\ s[11] = "T" /\ AllDigits(s, 12, 2) /\ s[14] = ":" /\ AllDigits(s, 15, 2)
  /\ s[17] = ":" /\ AllDigits(s, 18, 2) /\ s[20] = "." /\ AllDigits(s, 21, 3)
  /\ s[24] = "Z"
  /\ NumAt(s, 12, 2) <= 23 /\ NumAt(s, 15, 2) <= 59 /\ NumAt(s, 18, 2) <= 59

\* new Date(text).  Text without a digit is an invalid date on every host; the
\* three shapes above are read as UTC; what any other text gives depends on
\* the host's legacy parser and time zone, and is the parameter `host`.
DateParse(s, host) ==
  IF \A i \in DOMAIN s : ~IsDigit(s[i]) THEN InvalidDate
  ELSE IF IsoYearMonth(s)
  THEN DateVal(DaysFromCivil(NumAt(s, 1, 4), NumAt(s, 6, 2), 1) * 1440, 0)
  ELSE IF IsoDateOnly(s)
  THEN DateVal(DaysFromCivil(NumAt(s, 1, 4), NumAt(s, 6, 2), NumAt(s, 9, 2)) * 1440, 0)
  ELSE IF IsoInstant(s)
  THEN DateVal(DaysFromCivil(NumAt(s, 1, 4), NumAt(s, 6, 2), NumAt(s, 9, 2)) * 1440
                 + NumAt(s, 12, 2) * 60 + NumAt(s, 15, 2),
               NumAt(s, 18, 2) * 1000 + NumAt(s, 21, 3))
  ELSE host

\* a number as n decimal digits, zero-padded
RECURSIVE Pad(_, _)
Pad(x, n) == IF n = 0 THEN <<>> ELSE Pad(x \div 10, n - 1) \o <<Digits[(x % 10) + 1]>>

\* Date.prototype.toISOString of a valid date (it throws on an invalid one)
ToISOString(d) ==
  LET c == CivilFromDays(d.min \div 1440)
      hm == d.min % 1440
  IN Pad(c.y, 4) \o <<"-">> \o Pad(c.m, 2) \o <<"-">> \o Pad(c.d, 2) \o <<"T">>
       \o Pad(hm \div 60, 2) \o <<":">> \o Pad(hm % 60, 2) \o <<":">>
       \o Pad(d.ms \div 1000, 2) \o <<".">> \o Pad(d.ms % 1000, 3) \o <<"Z">>

(***************************************************************************)
(* IntakeParser (src/src/intakeNode.mts).                                  *)
(***************************************************************************)
LOINC == <<"h","t","t","p",":","/","/","l","o","i","n","c",".","o","r","g">>
LoincHttps == <<"h","t","t","p","s",":","/","/","l","o","i","n","c",".","o","r","g","|">>
LoincPrefix == LOINC \o <<"|">>

\* Set<string>.add on a set kept in insertion order
SetAdd(seq, x) == IF x \in Range(seq) THEN seq ELSE Append(seq, x)
RECURSIVE SetAddAll(_, _)
SetAddAll(seq, xs) ==
  IF xs = <<>> THEN seq ELSE SetAddAll(SetAdd(seq, Head(xs)), Tail(xs))

\* [:\s-]
SepClass == {":", " ", "-"}
\* [a-z0-9\-._] under the i flag
TokenClass == LetterClass \cup DigitClass \cup {"-", ".", "_"}

\* [:\s-]*([a-z0-9\-._]+) from position p: the separator run is greedy and
\* gives characters back until a token character follows; Undef if none does
SepThenToken(q, p) ==
  LET L == RunLen(q, p, SepClass)
      ks == {k \in 0..L : p + k <= Len(q) /\ q[p + k] \in TokenClass}
  IN IF ks = {} THEN Undef
     ELSE LET k == CHOOSE x \in ks : \A y \in ks : y <= x
              n == RunLen(q, p + k, TokenClass)
          IN Str(SubSeq(q, p + k, p + k + n - 1))

\* /\bpatient(?:Id)?[:\s-]*([a-z0-9\-._]+)/i anchored at position i
PatientAt(q, i) ==
  IF ~(WordBoundary(q, i) /\ MatchAtI(q, i, <<"p","a","t","i","e","n","t">>))
  THEN Undef
  ELSE LET withId == IF MatchAtI(q, i + 7, <<"I","d">>)
                     THEN SepThenToken(q, i + 9) ELSE Undef
       IN IF withId # Undef THEN withId ELSE SepThenToken(q, i + 7)

\* /\bpid[:\s-]*([a-z0-9\-._]+)/i anchored at position i
PidAt(q, i) ==
  IF WordBoundary(q, i) /\ MatchAtI(q, i, <<"p","i","d">>)
  THEN SepThenToken(q, i + 3) ELSE Undef

parsePatientId(text) ==
  LET ps == {i \in 1..Len(text) : PatientAt(text, i) # Undef}
      qs == {i \in 1..Len(text) : PidAt(text, i) # Undef}
  IN IF ps # {} THEN PatientAt(text, CHOOSE i \in ps : \A j \in ps : i <= j)
     ELSE IF qs # {} THEN PidAt(text, CHOOSE i \in qs : \A j \in qs : i <= j)
     ELSE Undef

\* (\d{1,6}-\d)(?!-\d)\b from position j: the number of digits before the
\* dash (the greedy maximum that lets the rest match), or 0
CodeDigitsAt(q, j) ==
  LET ns == {n \in 1..6 :
               /\ RunLen(q, j, DigitClass) >= n
               /\ MatchAt(q, j + n, <<"-">>)
               /\ RunLen(q, j + n + 1, DigitClass) >= 1
               /\ ~(MatchAt(q, j + n + 2, <<"-">>)
                    /\ RunLen(q, j + n + 3, DigitClass) >= 1)
               /\ WordBoundary(q, j + n + 2)}
  IN IF ns = {} THEN 0 ELSE CHOOSE n \in ns : \A m \in ns : m <= n

\* /(?:https?:\/\/loinc\.org\|)?(\d{1,6}-\d)(?!-\d)\b/gi anchored at i:
\* [from |-> first position of the group, n |-> digits before the dash], n = 0
\* when there is no match at i
CodeMatchAt(q, i) ==
  LET pre == IF MatchAtI(q, i, LoincPrefix) THEN Len(LoincPrefix)
             ELSE IF MatchAtI(q, i, LoincHttps) THEN Len(LoincHttps)
             ELSE 0
  IN IF pre > 0 /\ CodeDigitsAt(q, i + pre) > 0
     THEN [from |-> i + pre, n |-> CodeDigitsAt(q, i + pre)]
     ELSE [from |-> i, n |-> CodeDigitsAt(q, i)]

\* the while ((m = re.exec(text))) loop from lastIndex i
RECURSIVE LoincScan(_, _, _)
LoincScan(q, i, codes) ==
  IF i > Len(q) THEN codes
  ELSE LET m == CodeMatchAt(q, i)
       IN IF m.n = 0 THEN LoincScan(q, i + 1, codes)
          ELSE LoincScan(q, m.from + m.n + 2,
                         SetAdd(codes, LoincPrefix \o SubSeq(q, m.from, m.from + m.n + 1)))

parseLoincCodes(text) == LoincScan(text, 1, <<>>)

SYS == LoincPrefix \o <<"8","4","8","0","-","6">>
DIA == LoincPrefix \o <<"8","4","6","2","-","4">>
HR == LoincPrefix \o <<"8","8","6","7","-","4">>
SPO2 == LoincPrefix \o <<"5","9","4","0","8","-","5">>
WEIGHT == LoincPrefix \o <<"2","9","4","6","3","-","7">>
HEIGHT == LoincPrefix \o <<"8","3","0","2","-","2">>

\* Object.entries(SYNONYM_CODES), in insertion order
SYNONYM_CODES ==
  << [k |-> <<"b","l","o","o","d"," ","p","r","e","s","s","u","r","e">>, vals |-> <<SYS, DIA>>],
     [k |-> <<"b","p">>, vals |-> <<SYS, DIA>>],
     [k |-> <<"s","y","s","t","o","l","i","c">>, vals |-> <<SYS>>],
     [k |-> <<"d","i","a","s","t","o","l","i","c">>, vals |-> <<DIA>>],
     [k |-> <<"h","e","a","r","t"," ","r","a","t","e">>, vals |-> <<HR>>],
     [k |-> <<"p","u","l","s","e">>, vals |-> <<HR>>],
     [k |-> <<"s","p","o","2">>, vals |-> <<SPO2>>],
     [k |-> <<"o","x","y","g","e","n"," ","s","a","t","u","r","a","t","i","o","n">>,
      vals |-> <<SPO2>>],
     [k |-> <<"w","e","i","g","h","t">>, vals |-> <<WEIGHT>>],
     [k |-> <<"h","e","i","g","h","t">>, vals |-> <<HEIGHT>>] >>

RECURSIVE SynonymLoop(_, _, _)
SynonymLoop(normalized, i, out) ==
  IF i > Len(SYNONYM_CODES) THEN out
  ELSE SynonymLoop(normalized, i + 1,
                   IF Includes(normalized, SYNONYM_CODES[i].k)
                   THEN SetAddAll(out, SYNONYM_CODES[i].vals) ELSE out)

expandSynonyms(text, existing) ==
  SynonymLoop(ToLowerCase(text), 1, SetAddAll(<<>>, existing))

\* \s*[:=]?\s*(\d{1,4})\b from position p: the digits matched, or <<>>.
\* Giving white space or the optional [:=] back never finds another match,
\* and \b after the digits forces the whole run of digits to be taken.
NumberTail(q, p) ==
  LET p1 == p + RunLen(q, p, SpaceClass)
      p2 == IF p1 <= Len(q) /\ q[p1] \in {":", "="} THEN p1 + 1 ELSE p1
      p3 == p2 + RunLen(q, p2, SpaceClass)
      ns == {n \in 1..4 : RunLen(q, p3, DigitClass) >= n /\ WordBoundary(q, p3 + n)}
  IN IF ns = {} THEN <<>>
     ELSE SubSeq(q, p3, p3 + (CHOOSE x \in ns : \A y \in ns : y <= x) - 1)

\* new RegExp(`\\b(?:${keys.join("|")})\\s*[:=]?\\s*(\\d{1,4})\\b`, "i") at i:
\* the alternatives are tried in the order of keys
RECURSIVE NumberAt(_, _, _)
NumberAt(q, i, keys) ==
  IF keys = <<>> \/ ~WordBoundary(q, i) THEN <<>>
  ELSE LET ds == IF MatchAtI(q, i, Head(keys))
                 THEN NumberTail(q, i + Len(Head(keys))) ELSE <<>>
       IN IF ds # <<>> THEN ds ELSE NumberAt(q, i, Tail(keys))

parseNumber(text, keys, def) ==
  LET is == {i \in 1..Len(text) : NumberAt(text, i, keys) # <<>>}
  IN IF is = {} THEN def
     ELSE Num(ParseInt(NumberAt(text, CHOOSE i \in is : \A j \in is : i <= j, keys)))

\* const toIsoDate = (s) => ...: s is <<>> when the regular expression gave
\* no group
toIsoDate(s, host) ==
  IF s = <<>> THEN Undef
  ELSE IF DateParse(s, host) = InvalidDate THEN Undef
  ELSE Str(ToISOString(DateParse(s, host)))

\* [A-Za-z]{3,9}\s+\d{1,2}(?:,\s*\d{4})? from position j: its length, or 0
MonthPhraseLen(q, j) ==
  LET a == RunLen(q, j, LetterClass)
      sp == RunLen(q, j + a, SpaceClass)
      d == RunLen(q, j + a + sp, DigitClass)
      dd == IF d >= 2 THEN 2 ELSE d
      e == j + a + sp + dd
      sp2 == RunLen(q, e + 1, SpaceClass)
      year == MatchAt(q, e, <<",">>) /\ RunLen(q, e + 1 + sp2, DigitClass) >= 4
  IN IF a \in 3..9 /\ sp >= 1 /\ d >= 1
     THEN a + sp + dd + (IF year THEN 1 + sp2 + 4 ELSE 0)
     ELSE 0

\* \d{4}[-/]\d{1,2} from position j: its length, or 0
YearMonthLen(q, j) ==
  LET m == RunLen(q, j + 5, DigitClass)
  IN IF AllDigits(q, j, 4) /\ j + 4 <= Len(q) /\ q[j + 4] \in {"-", "/"} /\ m >= 1
     THEN 5 + (IF m >= 2 THEN 2 ELSE 1)
     ELSE 0

\* \d{4}[-/]\d{1,2}[-/]\d{1,2} from position j: its length, or 0.  The month
\* gives a digit back when only one digit is followed by the separator.
YearMonthDayLen(q, j) ==
  LET ms == {m \in 1..2 : /\ YearMonthLen(q, j) >= 5 + m
                          /\ j + 5 + m <= Len(q)
                          /\ q[j + 5 + m] \in {"-", "/"}
                          /\ RunLen(q, j + 6 + m, DigitClass) >= 1}
      m == CHOOSE x \in ms : \A y \in ms : y <= x
      d == RunLen(q, j + 6 + m, DigitClass)
  IN IF ms = {} THEN 0 ELSE 6 + m + (IF d >= 2 THEN 2 ELSE 1)

\* the date alternatives of parseSince / parseUntil, in their order
DatePhraseLen(q, j) ==
  IF MonthPhraseLen(q, j) > 0 THEN MonthPhraseLen(q, j)
  ELSE IF YearMonthDayLen(q, j) > 0 THEN YearMonthDayLen(q, j)
  ELSE YearMonthLen(q, j)

\* /\b(k1|k2|...)\s+(<date>)/i anchored at i: the text of group 2, or <<>>
RECURSIVE KeywordDateAt(_, _, _)
KeywordDateAt(q, i, keys) ==
  IF keys = <<>> \/ ~WordBoundary(q, i) THEN <<>>
  ELSE LET j == i + Len(Head(keys)) + RunLen(q, i + Len(Head(keys)), SpaceClass)
           ok == /\ MatchAtI(q, i, Head(keys))
                 /\ RunLen(q, i + Len(Head(keys)), SpaceClass) >= 1
                 /\ DatePhraseLen(q, j) > 0
       IN IF ok THEN SubSeq(q, j, j + DatePhraseLen(q, j) - 1)
          ELSE KeywordDateAt(q, i, Tail(keys))

KeywordDate(text, keys) ==
  LET is == {i \in 1..Len(text) : KeywordDateAt(text, i, keys) # <<>>}
  IN IF is = {} THEN <<>>
     ELSE KeywordDateAt(text, CHOOSE i \in is : \A j \in is : i <= j, keys)

parseSince(text, host) ==
  toIsoDate(KeywordDate(text, << <<"s","i","n","c","e">>, <<"a","f","t","e","r">> >>), host)

parseUntil(text, host) ==
  toIsoDate(KeywordDate(text, << <<"u","n","t","i","l">>,
                                 <<"t","h","r","o","u","g","h">>,
                                 <<"b","e","f","o","r","e">> >>), host)

DefaultCount == 100
DefaultMaxItems == 200

\* the route intake proposes from the fields it found
intakeRoute(patientId, codes, since, until) ==
  LET action == IF Len(codes) = 0 /\ (Truthy(since) \/ Truthy(until))
                THEN "summarize" ELSE "unknown"
  IN IF Truthy(patientId) /\ Len(codes) > 0 THEN "fetch" ELSE action

\* the params object literal: all six keys are own properties; a field that
\* was not found holds Undef
intakeParams(patientId, codes, since, until, count, maxItems) ==
  [k \in {"patientId", "codes", "since", "until", "count", "maxItems"} |->
     CASE k = "patientId" -> patientId
       [] k = "codes" -> (IF Len(codes) # 0 THEN Arr(codes) ELSE Undef)
       [] k = "since" -> since
       [] k = "until" -> until
       [] k = "count" -> count
       [] k = "maxItems" -> maxItems]

\* the object the node returns
intakeReturn(q, patientId, codes, since, until, count, maxItems) ==
  [query |-> q,
   params |-> intakeParams(patientId, codes, since, until, count, maxItems),
   route |-> intakeRoute(patientId, codes, since, until)]

\* the fields parsed out of the trimmed query
intakeParse(q, host) ==
  intakeReturn(q, parsePatientId(q), expandSynonyms(q, parseLoincCodes(q)),
               parseSince(q, host), parseUntil(q, host),
               parseNumber(q, << <<"c","o","u","n","t">>, <<"_","c","o","u","n","t">> >>,
                           Num(DefaultCount)),
               parseNumber(q, << <<"m","a","x">>, <<"m","a","x","I","t","e","m","s">> >>,
                           Num(DefaultMaxItems)))

\* intakeNode: what the node returns, {query: q, params, route}
intakeNode(input, host) == intakeParse(Trim(input.query), host)

(***************************************************************************)
(* String order: String.prototype.localeCompare in the root collation.     *)
(* Punctuation sorts before digits, digits before letters; letter case is  *)
(* looked at only when the strings are equal without it (lower case first).*)
(***************************************************************************)
CollationOrder ==
  <<" ","_","-",",",";",":","!","?",".","'","(",")","[","]","{","}","@","*","/",
    "&","#","%","^","+","<","=",">","|","~","$",
    "0","1","2","3","4","5","6","7","8","9",
    "a","b","c","d","e","f","g","h","i","j","k","l","m",
    "n","o","p","q","r","s","t","u","v","w","x","y","z">>
CharRank(c) == CHOOSE i \in DOMAIN CollationOrder : CollationOrder[i] = LowerChar(c)

\* -1, 0 or 1: the first difference of the two sequences of ranks
RECURSIVE CompareRanks(_, _)
CompareRanks(a, b) ==
  IF a = <<>> /\ b = <<>> THEN 0
  ELSE IF a = <<>> THEN -1
  ELSE IF b = <<>> THEN 1
  ELSE IF Head(a) < Head(b) THEN -1
  ELSE IF Head(a) > Head(b) THEN 1
  ELSE CompareRanks(Tail(a), Tail(b))

localeCompare(a, b) ==
  LET primary == CompareRanks([i \in DOMAIN a |-> CharRank(a[i])],
                              [i \in DOMAIN b |-> CharRank(b[i])])
      caseOf(x) == [i \in DOMAIN x |-> IF x[i] \in Range(UpperCase) THEN 1 ELSE 0]
  IN IF primary # 0 THEN primary ELSE CompareRanks(caseOf(a), caseOf(b))

(***************************************************************************)
(* Observation records and series construction                            *)
(* (src/src/trend.mts normalizeToSeries, src/src/summarizer.mts            *)
(* observationsToSeries).  A record is an object; a Series is              *)
(* [code, display, unit, points], a Point is [t, v].                       *)
(***************************************************************************)
Infinity == [t |-> "Infinity"]

IsObj(x) == "t" \notin DOMAIN x
\* o?.a?.b
GetIn(o, a, b) == IF IsObj(Get(o, a)) THEN Get(Get(o, a), b) ELSE Undef

\* Number.isFinite(v)
IsFinite(v) == v.t = "number"

joinSystemCode(system, code) == system \o <<"|">> \o code

stripSystem(code) ==
  LET is == {i \in DOMAIN code : code[i] = "|"}
  IN IF is = {} THEN code
     ELSE SubSeq(code, (CHOOSE i \in is : \A j \in is : i <= j) + 1, Len(code))

Unknown == <<"u","n","k","n","o","w","n">>

canonicalCode(it) ==
  IF Truthy(GetIn(it, "code", "system")) /\ Truthy(GetIn(it, "code", "code"))
  THEN joinSystemCode(GetIn(it, "code", "system").v, GetIn(it, "code", "code").v)
  ELSE IF Truthy(Get(it, "loinc")) THEN joinSystemCode(LOINC, Get(it, "loinc").v)
  ELSE IF Truthy(GetIn(it, "code", "code")) THEN GetIn(it, "code", "code").v
  ELSE Unknown

\* a numericValue that falls back on valueQuantity.value when value is no number
numericValueEither(it) ==
  IF IsFinite(Get(it, "value")) THEN Get(it, "value")
  ELSE IF IsFinite(GetIn(it, "valueQuantity", "value")) THEN GetIn(it, "valueQuantity", "value")
  ELSE Null

numericValue(it) ==
  LET v == Coalesce(Get(it, "value"), GetIn(it, "valueQuantity", "value"))
  IN IF IsFinite(v) THEN v ELSE Null

\* it?.when ?? it?.effectiveDateTime ?? it?.issued
RawWhen(it) ==
  Coalesce(Coalesce(Get(it, "when"), Get(it, "effectiveDateTime")), Get(it, "issued"))

isoWhen(it, host) ==
  LET raw == RawWhen(it)
  IN IF ~Truthy(raw) THEN Null
     ELSE IF DateParse(raw.v, host) = InvalidDate THEN Null
     ELSE Str(ToISOString(DateParse(raw.v, host)))

pickUnit(it) == Coalesce(Coalesce(Get(it, "unit"), GetIn(it, "valueQuantity", "unit")), Null)

buildRequestedSet(requestedCodes) ==
  UNION {{requestedCodes[i], stripSystem(requestedCodes[i])}
           \cup (IF "|" \in Range(requestedCodes[i]) THEN {}
                 ELSE {joinSystemCode(LOINC, requestedCodes[i])})
         : i \in DOMAIN requestedCodes}

\* the Map `by`, in insertion order, as a sequence of [code, display, unit, points]
ByIndex(by, code) ==
  IF \E i \in DOMAIN by : by[i].code = code
  THEN CHOOSE i \in DOMAIN by : by[i].code = code ELSE 0

ByPush(by, code, display, unit, point) ==
  IF ByIndex(by, code) = 0
  THEN Append(by, [code |-> code, display |-> display, unit |-> unit, points |-> <<point>>])
  ELSE [by EXCEPT ![ByIndex(by, code)].points = Append(@, point)]

\* points.sort((a, b) => a.t.localeCompare(b.t)): a stable sort
RECURSIVE InsertPoint(_, _)
InsertPoint(sorted, p) ==
  IF sorted = <<>> THEN <<p>>
  ELSE IF localeCompare(sorted[Len(sorted)].t, p.t) <= 0 THEN Append(sorted, p)
  ELSE Append(InsertPoint(SubSeq(sorted, 1, Len(sorted) - 1), p), sorted[Len(sorted)])
\* points left in the order of the records
SortPointsAsGiven(ps) == ps
RECURSIVE SortPoints(_)
SortPoints(ps) ==
  IF ps = <<>> THEN <<>>
  ELSE InsertPoint(SortPoints(SubSeq(ps, 1, Len(ps) - 1)), ps[Len(ps)])

\* out.sort((a, b) => a.code.localeCompare(b.code)): a stable sort
RECURSIVE InsertSeries(_, _)
InsertSeries(sorted, x) ==
  IF sorted = <<>> THEN <<x>>
  ELSE IF localeCompare(sorted[Len(sorted)].code, x.code) <= 0 THEN Append(sorted, x)
  ELSE Append(InsertSeries(SubSeq(sorted, 1, Len(sorted) - 1), x), sorted[Len(sorted)])
RECURSIVE SortSeries(_)
SortSeries(ss) ==
  IF ss = <<>> THEN <<>>
  ELSE InsertSeries(SortSeries(SubSeq(ss, 1, Len(ss) - 1)), ss[Len(ss)])

\* the first loop of normalizeToSeries
RECURSIVE NormalizeLoop(_, _, _)
NormalizeLoop(items, by, host) ==
  IF items = <<>> THEN by
  ELSE LET it == Head(items)
           v == numericValue(it)
           t == isoWhen(it, host)
       IN IF v = Null \/ ~Truthy(t) THEN NormalizeLoop(Tail(items), by, host)
          ELSE NormalizeLoop(Tail(items),
                             ByPush(by, canonicalCode(it), GetIn(it, "code", "display"),
                                    pickUnit(it), [t |-> t.v, v |-> v]),
                             host)

RECURSIVE KeepCodes(_, _)
KeepCodes(seq, keep) ==
  IF seq = <<>> THEN <<>>
  ELSE (IF Head(seq).code \in keep THEN <<Head(seq)>> ELSE <<>>) \o KeepCodes(Tail(seq), keep)

normalizeToSeries(items, requestedCodes, host) ==
  LET by == NormalizeLoop(items, <<>>, host)
      requested == buildRequestedSet(requestedCodes)
      keep == {by[i].code : i \in {j \in DOMAIN by :
                  requested = {} \/ by[j].code \in requested
                                 \/ stripSystem(by[j].code) \in requested}}
      kept == KeepCodes(by, keep)
  IN SortSeries([i \in DOMAIN kept |-> [kept[i] EXCEPT !.points = SortPoints(@)]])

\* createSeries of summarizer.mts
createSeries(by, requestedCodes) ==
  LET keyNoScheme(code) == IF "|" \in Range(code) THEN code ELSE LoincPrefix \o code
      keep == {by[i].code : i \in {j \in DOMAIN by :
                  ~(/\ Len(requestedCodes) # 0
                    /\ by[j].code \notin Range(requestedCodes)
                    /\ keyNoScheme(by[j].code) \notin Range(requestedCodes))}}
      kept == KeepCodes(by, keep)
  IN SortSeries([i \in DOMAIN kept |-> [kept[i] EXCEPT !.points = SortPoints(@)]])

\* the code of a record in observationsToSeries
ObsCode(it) ==
  LET rhs == IF Truthy(GetIn(it, "code", "system")) /\ Truthy(GetIn(it, "code", "code"))
             THEN joinSystemCode(GetIn(it, "code", "system").v, GetIn(it, "code", "code").v)
             ELSE Coalesce(GetIn(it, "code", "code"), Str(Unknown)).v
  IN IF Truthy(Get(it, "loinc")) THEN LoincPrefix \o Get(it, "loinc").v ELSE rhs

\* the loop of observationsToSeries: threw is TRUE when
\* new Date(when).toISOString() is reached with an invalid date (a RangeError)
RECURSIVE ObservationsLoop(_, _, _)
ObservationsLoop(items, by, host) ==
  IF items = <<>> THEN [threw |-> FALSE, by |-> by]
  ELSE LET it == Head(items)
           v == Coalesce(Get(it, "value"), GetIn(it, "valueQuantity", "value"))
           when == RawWhen(it)
       IN IF ~IsFinite(v) THEN ObservationsLoop(Tail(items), by, host)
          ELSE IF ~Truthy(when) THEN ObservationsLoop(Tail(items), by, host)
          ELSE IF DateParse(when.v, host) = InvalidDate THEN [threw |-> TRUE, by |-> by]
          ELSE ObservationsLoop(Tail(items),
                 ByPush(by, ObsCode(it), GetIn(it, "code", "display"),
                        Coalesce(Coalesce(Get(it, "unit"), GetIn(it, "valueQuantity", "unit")),
                                 Null),
                        [t |-> ToISOString(DateParse(when.v, host)), v |-> v]),
                 host)

\* observationsToSeries: [threw |-> TRUE] or [threw |-> FALSE, series |-> ...]
observationsToSeries(items, requestedCodes, host) ==
  LET r == ObservationsLoop(items, <<>>, host)
  IN IF r.threw THEN [threw |-> TRUE, series |-> <<>>]
     ELSE [threw |-> FALSE, series |-> createSeries(r.by, requestedCodes)]

(***************************************************************************)
(* TrendEngine statistics, bucketing and flags (src/src/trend.mts).        *)
(***************************************************************************)
mean(xs) == Div(Sum(xs), Num(Len(xs)))

variance(xs, m) ==
  IF Len(xs) > 1
  THEN Div(Sum([i \in DOMAIN xs |-> Mul(Sub(xs[i], m), Sub(xs[i], m))]), Num(Len(xs) - 1))
  ELSE Num(0)

\* Math.sqrt, kept symbolic: the square root of a positive fraction
Sqrt(x) == IF x.n = 0 THEN Num(0) ELSE [t |-> "sqrt", of |-> x]
std(xs, m) == Sqrt(variance(xs, m))

\* [...xs].sort((x, y) => x - y)
RECURSIVE InsertNumber(_, _)
InsertNumber(sorted, x) ==
  IF sorted = <<>> THEN <<x>>
  ELSE IF Cmp(sorted[Len(sorted)], x) <= 0 THEN Append(sorted, x)
  ELSE Append(InsertNumber(SubSeq(sorted, 1, Len(sorted) - 1), x), sorted[Len(sorted)])
RECURSIVE SortNumbers(_)
SortNumbers(xs) ==
  IF xs = <<>> THEN <<>>
  ELSE InsertNumber(SortNumbers(SubSeq(xs, 1, Len(xs) - 1)), xs[Len(xs)])

\* of a non-empty list
median(xs) ==
  LET a == SortNumbers(xs)
      n == Len(a)
      m == n \div 2
  IN IF n % 2 = 1 THEN a[m + 1] ELSE Div(Add(a[m], a[m + 1]), Num(2))

\* +new Date(t) - +new Date(t0), in days, for two valid dates
DaysBetween(d0, d) ==
  Add(Rat(d.min - d0.min, 1440), Rat(d.ms - d0.ms, 86400000))

\* the least-squares slope of ys over xs, two lists of one length
LeastSquares(xs, ys, xbar, ybar) ==
  LET num == Sum([i \in DOMAIN xs |-> Mul(Sub(xs[i], xbar), Sub(ys[i], ybar))])
      den == Sum([i \in DOMAIN xs |-> Mul(Sub(xs[i], xbar), Sub(xs[i], xbar))])
  IN IF den.n = 0 THEN Num(0) ELSE Div(num, den)

SlopeOf(xs, ys) == LeastSquares(xs, ys, mean(xs), mean(ys))

slopePerDay(pts, host) ==
  IF Len(pts) < 2 THEN Num(0)
  ELSE SlopeOf([i \in DOMAIN pts |->
                  DaysBetween(DateParse(pts[1].t, host), DateParse(pts[i].t, host))],
               [i \in DOMAIN pts |-> pts[i].v])

RECURSIVE MinOf(_)
MinOf(xs) ==
  IF Len(xs) = 1 THEN xs[1]
  ELSE LET r == MinOf(Tail(xs)) IN IF Less(r, Head(xs)) THEN r ELSE Head(xs)
RECURSIVE MaxOf(_)
MaxOf(xs) ==
  IF Len(xs) = 1 THEN xs[1]
  ELSE LET r == MaxOf(Tail(xs)) IN IF Greater(r, Head(xs)) THEN r ELSE Head(xs)

\* computeStats: the Stats object; a Series without points has only the
\* keys code, display and unit
computeStats(s, host) ==
  LET vals == [i \in DOMAIN s.points |-> s.points[i].v]
      base == [k \in {"code", "display", "unit"} |->
                 CASE k = "code" -> Str(s.code) [] k = "display" -> s.display
                   [] k = "unit" -> s.unit]
      latest == s.points[Len(s.points)]
      m == mean(vals)
      sd == std(vals, m)
      z == IF sd.t = "sqrt"
           THEN [t |-> "quotient", num |-> Sub(latest.v, m), den |-> sd] ELSE Num(0)
  IN IF Len(vals) = 0 THEN base
     ELSE Spread(base,
            [k \in {"latest", "latestAt", "min", "max", "mean", "median", "std", "slope",
                    "zscore_latest"} |->
               CASE k = "latest" -> latest.v
                 [] k = "latestAt" -> Str(latest.t)
                 [] k = "min" -> MinOf(vals)
                 [] k = "max" -> MaxOf(vals)
                 [] k = "mean" -> m
                 [] k = "median" -> median(vals)
                 [] k = "std" -> sd
                 [] k = "slope" -> slopePerDay(s.points, host)
                 [] k = "zscore_latest" -> z])

\* floorBucket, in whole minutes since the epoch.  hourly clears the minutes
\* of the local time (setMinutes), tz being the minutes local time is ahead
\* of UTC; daily and weekly work in UTC, and 1970-01-01 was a Thursday.
floorBucket(ts, f, tz) ==
  LET day == ts.min \div 1440
      dow == (day + 4) % 7
  IN CASE f = "hourly" -> ((ts.min + tz) \div 60) * 60 - tz
       [] f = "daily" -> day * 1440
       [] f = "weekly" -> (day - dow) * 1440

AutoThreshold == 200

\* if (!buckets.has(k)) buckets.set(k, []); buckets.get(k).push(v)
BucketPush(buckets, k, v) ==
  LET at == {i \in DOMAIN buckets : buckets[i].k = k}
  IN IF at = {} THEN Append(buckets, [k |-> k, arr |-> <<v>>])
     ELSE [buckets EXCEPT ![CHOOSE i \in at : TRUE].arr = Append(@, v)]

\* the Map `buckets`, in insertion order, as a sequence of [k, arr]
RECURSIVE BucketLoop(_, _, _, _, _)
BucketLoop(pts, buckets, f, host, tz) ==
  IF pts = <<>> THEN buckets
  ELSE BucketLoop(Tail(pts),
                  BucketPush(buckets, floorBucket(DateParse(Head(pts).t, host), f, tz),
                             Head(pts).v),
                  f, host, tz)

\* one point per bucket: its start and the median of its values
BucketPoints(buckets) ==
  [i \in DOMAIN buckets |->
     [t |-> ToISOString(DateVal(buckets[i].k, 0)), v |-> median(buckets[i].arr)]]

bucketSeries(s, freq, host, tz) ==
  IF freq = "auto" /\ Len(s.points) <= AutoThreshold THEN s
  ELSE [s EXCEPT !.points =
          SortPoints(BucketPoints(BucketLoop(s.points, <<>>,
                                             IF freq = "auto" THEN "daily" ELSE freq,
                                             host, tz)))]

\* new Map(all.map(s => [s.code, s])).get(code): the last entry with the code
StatsOf(all, code) ==
  LET is == {i \in DOMAIN all : all[i]["code"] = Str(code)}
  IN IF is = {} THEN Undef ELSE all[CHOOSE i \in is : \A j \in is : j <= i]

BpCritSys == 180
BpCritDia == 120
BpWarnSys == 160
\* the diastolic warning threshold taken to be the crisis threshold
BpWarnDiaAsCrit == BpCritDia
BpWarnDia == 100
SlopeInfo == 2
HrHigh == 130
HrLow == 40
Spo2Crit == 90
Spo2Warn == 93

\* flagsFromStats; the evidence text is kept as its template's name and the
\* numbers it embeds
flagsFromStats(all) ==
  LET sys == StatsOf(all, SYS)
      dia == StatsOf(all, DIA)
      hr == StatsOf(all, HR)
      sp == StatsOf(all, SPO2)
      has(st) == ~Nullish(Get(st, "latest"))
      bp == IF ~(has(sys) /\ has(dia)) THEN <<>>
            ELSE (IF Geq(sys["latest"], Num(BpCritSys)) \/ Geq(dia["latest"], Num(BpCritDia))
                  THEN << [code |-> <<"B","P">>, severity |-> "crit",
                           rule |-> "Hypertensive crisis candidate",
                           evidence |-> [text |-> "SBP / DBP",
                                         of |-> <<sys["latest"], dia["latest"]>>]] >>
                  ELSE IF Geq(sys["latest"], Num(BpWarnSys)) \/ Geq(dia["latest"], Num(BpWarnDia))
                  THEN << [code |-> <<"B","P">>, severity |-> "warn",
                           rule |-> "Very high blood pressure",
                           evidence |-> [text |-> "SBP / DBP",
                                         of |-> <<sys["latest"], dia["latest"]>>]] >>
                  ELSE <<>>)
                 \o (IF Geq(Coalesce(Get(sys, "slope"), Num(0)), Num(SlopeInfo))
                     THEN << [code |-> SYS, severity |-> "info",
                              rule |-> "Systolic rising fast",
                              evidence |-> [text |-> "slope", of |-> <<sys["slope"]>>]] >>
                     ELSE <<>>)
      hrf == IF has(hr) /\ (Greater(hr["latest"], Num(HrHigh)) \/ Less(hr["latest"], Num(HrLow)))
             THEN << [code |-> HR, severity |-> "warn", rule |-> "HR out of nominal range",
                      evidence |-> [text |-> "HR", of |-> <<hr["latest"]>>]] >>
             ELSE <<>>
      spf == IF ~has(sp) THEN <<>>
             ELSE IF Less(sp["latest"], Num(Spo2Crit))
             THEN << [code |-> SPO2, severity |-> "crit", rule |-> "Low SpO2",
                      evidence |-> [text |-> "%", of |-> <<sp["latest"]>>]] >>
             ELSE IF Less(sp["latest"], Num(Spo2Warn))
             THEN << [code |-> SPO2, severity |-> "warn", rule |-> "Borderline SpO2",
                      evidence |-> [text |-> "%", of |-> <<sp["latest"]>>]] >>
             ELSE <<>>
  IN bp \o hrf \o spf

(***************************************************************************)
(* OutputComposer (src/src/summarizer.mts, src/src/metrics.mts).  A summary*)
(* is kept as [kind, ...]: "message" (a fixed message), "narrative" (the   *)
(* collaborator's text), "deterministic" (the lines of                     *)
(* deterministicSummary) or "table" (the rows of the metrics table).       *)
(***************************************************************************)
\* contentToString (aiShared): content is a string, an array of parts or an
\* object
RECURSIVE JoinLines(_)
JoinLines(parts) ==
  IF parts = <<>> THEN <<>>
  ELSE IF Len(parts) = 1 THEN Coalesce(Get(parts[1], "text"), Str(<<>>)).v
  ELSE Coalesce(Get(parts[1], "text"), Str(<<>>)).v \o <<"\n">> \o JoinLines(Tail(parts))

contentToString(content) ==
  IF content.t = "string" THEN content.v
  ELSE IF content.t = "array" THEN JoinLines(content.v)
  ELSE Coalesce(Get(content, "text"), Str(<<>>)).v

RECURSIVE CountPoints(_)
CountPoints(series) ==
  IF series = <<>> THEN 0 ELSE Len(Head(series).points) + CountPoints(Tail(series))

RECURSIVE LatestLines(_)
LatestLines(stats) ==
  IF stats = <<>> THEN <<>>
  ELSE (IF ~Nullish(Get(Head(stats), "latest"))
        THEN << [line |-> "latest",
                 label |-> Coalesce(Head(stats)["display"], Head(stats)["code"]),
                 latest |-> Head(stats)["latest"],
                 unit |-> IF Truthy(Head(stats)["unit"]) THEN Head(stats)["unit"]
                          ELSE Str(<<>>),
                 at |-> Coalesce(Get(Head(stats), "latestAt"), Str(Unknown))] >>
        ELSE <<>>) \o LatestLines(Tail(stats))

deterministicSummary(trends) ==
  [kind |-> "deterministic",
   lines |->
     << [line |-> "coverage", nPoints |-> CountPoints(trends.series),
         nSeries |-> Len(trends.series)] >>
     \o (IF Len(trends.flags) # 0
         THEN << [line |-> "Flags:"] >>
              \o [i \in DOMAIN trends.flags |->
                    [line |-> "flag", severity |-> trends.flags[i].severity,
                     rule |-> trends.flags[i].rule, evidence |-> trends.flags[i].evidence]]
         ELSE << [line |-> "No safety flags detected."] >>)
     \o LatestLines(trends.stats)]

\* what llm.invoke gave: "none" (no llm), "throws", or the message content;
\* contentToString(res).trim() || deterministicSummary(trends)
Narrate(llm, trends) ==
  IF llm = [t |-> "none"] \/ llm = [t |-> "throws"] THEN deterministicSummary(trends)
  ELSE IF Trim(contentToString(llm)) # <<>>
  THEN [kind |-> "narrative", text |-> Trim(contentToString(llm))]
  ELSE deterministicSummary(trends)

summarizeTrends(llm, trends) == Narrate(llm, trends)

\* summarizeObservations: [threw, summary]
\* series.map(s => s.points.length ? bucketSeries(s, bucketForFallback) : s)
FallbackSeries(series, bucketForFallback, host, tz) ==
  [i \in DOMAIN series |->
     IF Len(series[i].points) # 0
     THEN bucketSeries(series[i], bucketForFallback, host, tz)
     ELSE series[i]]

\* the Trends object literal
TrendsOf(series, stats, fetchedCount) ==
  [series |-> series, stats |-> stats, flags |-> flagsFromStats(stats),
   raw |-> [fetchedCount |-> fetchedCount]]

\* series.map(computeStats), and the Trends around it
TrendsOfSeries(series, fetchedCount, host) ==
  TrendsOf(series, [i \in DOMAIN series |-> computeStats(series[i], host)], fetchedCount)

\* what follows observationsToSeries, r being what it gave
SummarizeSeries(r, fetchedCount, bucketForFallback, llm, host, tz) ==
  IF r.threw THEN [threw |-> TRUE, summary |-> Undef]
  ELSE [threw |-> FALSE,
        summary |-> Narrate(llm, TrendsOfSeries(FallbackSeries(r.series, bucketForFallback,
                                                               host, tz),
                                                fetchedCount, host))]

summarizeObservations(items, params, bucketForFallback, llm, host, tz) ==
  SummarizeSeries(observationsToSeries(items, Coalesce(Get(params, "codes"), Arr(<<>>)).v,
                                       host),
                  Len(items), bucketForFallback, llm, host, tz)

\* normalizeRaw of metrics.mts
normalizeRaw(obs) ==
  LET system == GetIn(obs, "code", "system")
      code == GetIn(obs, "code", "code")
      rhs == IF Truthy(code) THEN LoincPrefix \o code.v ELSE Unknown
  IN [codeKey |-> IF Truthy(system) /\ Truthy(code) THEN joinSystemCode(system.v, code.v)
                  ELSE rhs,
      display |-> GetIn(obs, "code", "display"),
      value |-> Get(obs, "value"),
      unit |-> Get(obs, "unit"),
      when |-> Get(obs, "when"),
      status |-> Get(obs, "status")]

\* new Date(b.when ?? 0).getTime() - new Date(a.when ?? 0).getTime(), as its
\* sign; NaN (an invalid date on either side) counts as 0 in Array.sort
WhenTime(r, host) ==
  IF Nullish(r.when) THEN DateVal(0, 0) ELSE DateParse(r.when.v, host)
TimeDiffSign(ta, tb) ==
  IF ta = InvalidDate \/ tb = InvalidDate THEN 0
  ELSE IF tb.min # ta.min THEN (IF tb.min < ta.min THEN -1 ELSE 1)
  ELSE IF tb.ms < ta.ms THEN -1 ELSE IF tb.ms > ta.ms THEN 1 ELSE 0
TimeDesc(a, b, host) == TimeDiffSign(WhenTime(a, host), WhenTime(b, host))

\* arr.sort(by time, descending): a stable sort
RECURSIVE InsertRowByTime(_, _, _)
InsertRowByTime(sorted, r, host) ==
  IF sorted = <<>> THEN <<r>>
  ELSE IF TimeDesc(sorted[Len(sorted)], r, host) <= 0 THEN Append(sorted, r)
  ELSE Append(InsertRowByTime(SubSeq(sorted, 1, Len(sorted) - 1), r, host),
              sorted[Len(sorted)])
RECURSIVE SortRowsByTime(_, _)
SortRowsByTime(rows, host) ==
  IF rows = <<>> THEN <<>>
  ELSE InsertRowByTime(SortRowsByTime(SubSeq(rows, 1, Len(rows) - 1), host),
                       rows[Len(rows)], host)

\* out.sort: a.when === b.when ? codeKey order : time, descending
RowOrder(a, b, host) ==
  IF a.when = b.when THEN localeCompare(a.codeKey, b.codeKey) ELSE TimeDesc(a, b, host)
RECURSIVE InsertRow(_, _, _)
InsertRow(sorted, r, host) ==
  IF sorted = <<>> THEN <<r>>
  ELSE IF RowOrder(sorted[Len(sorted)], r, host) <= 0 THEN Append(sorted, r)
  ELSE Append(InsertRow(SubSeq(sorted, 1, Len(sorted) - 1), r, host), sorted[Len(sorted)])
RECURSIVE SortRows(_, _)
SortRows(rows, host) ==
  IF rows = <<>> THEN <<>>
  ELSE InsertRow(SortRows(SubSeq(rows, 1, Len(rows) - 1), host), rows[Len(rows)], host)

\* the distinct code keys of the rows, in order of first appearance
RECURSIVE CodeKeys(_, _)
CodeKeys(rows, seen) ==
  IF rows = <<>> THEN seen ELSE CodeKeys(Tail(rows), SetAdd(seen, Head(rows).codeKey))

RECURSIVE RowsOf(_, _)
RowsOf(rows, key) ==
  IF rows = <<>> THEN <<>>
  ELSE (IF Head(rows).codeKey = key THEN <<Head(rows)>> ELSE <<>>) \o RowsOf(Tail(rows), key)

\* arr.slice(0, limit)
FirstRows(arr, limit) == SubSeq(arr, 1, IF Len(arr) < limit THEN Len(arr) ELSE limit)

RECURSIVE ConcatRecent(_, _, _, _)
ConcatRecent(rows, keys, limitPerCode, host) ==
  IF keys = <<>> THEN <<>>
  ELSE FirstRows(SortRowsByTime(RowsOf(rows, Head(keys)), host), limitPerCode)
         \o ConcatRecent(rows, Tail(keys), limitPerCode, host)

pickRecentPerCode(rows, limitPerCode, host) ==
  SortRows(ConcatRecent(rows, CodeKeys(rows, <<>>), limitPerCode, host), host)

RECURSIVE RowsWithWhen(_)
RowsWithWhen(items) ==
  IF items = <<>> THEN <<>>
  ELSE (IF Truthy(normalizeRaw(Head(items)).when) THEN <<normalizeRaw(Head(items))>>
        ELSE <<>>) \o RowsWithWhen(Tail(items))

MetricsLimit == 25

\* metricDetails: the summary it sets
metricDetails(items, host) ==
  IF Len(items) = 0 THEN [kind |-> "message", msg |-> "No raw observations available."]
  ELSE [kind |-> "table",
        rows |-> pickRecentPerCode(RowsWithWhen(items), MetricsLimit, host)]

BucketForFallback == "auto"

\* s.bundle?.entry ?? []
BundleItems(s) ==
  IF IsObj(s.bundle) THEN Coalesce(Get(s.bundle, "entry"), Arr(<<>>)).v ELSE <<>>

\* the branches of the summarizer node: [threw, summary]
summarizerBranch(s, items, llm, host, tz) ==
  IF s.route = "metrics"
  THEN [threw |-> FALSE, summary |-> metricDetails(items, host)]
  ELSE IF (IF IsObj(s.trends) THEN Len(s.trends["series"]) # 0 ELSE FALSE)
  THEN [threw |-> FALSE, summary |-> summarizeTrends(llm, s.trends)]
  ELSE IF Len(items) # 0
  THEN summarizeObservations(items, s.params, BucketForFallback, llm, host, tz)
  ELSE [threw |-> FALSE,
        summary |-> [kind |-> "message", msg |-> "No observations or trends to summarize."]]

\* {...s, summary}, unless the branch threw
WithSummary(s, r) ==
  IF r.threw THEN [threw |-> TRUE, s |-> s]
  ELSE [threw |-> FALSE, s |-> [s EXCEPT !.summary = r.summary]]

\* the summarizer node: [threw, s]
summarizer(s, llm, host, tz) ==
  WithSummary(s, summarizerBranch(s, BundleItems(s), llm, host, tz))

(***************************************************************************)
(* Router (src/src/plannerAgent.mts).                                      *)
(***************************************************************************)
RouteEnum == {"metrics", "fetch", "summarize", "alert", "unknown"}
MissingEnum == {"patientId", "codes", "since", "until"}
PatchKeys == {"patientId", "codes", "since", "until", "count", "maxItems"}

\* the type each key of params_patch must have when it is present
PatchFieldOk(k, v) ==
  CASE k \in {"patientId", "since", "until"} -> v.t = "string"
    [] k = "codes" -> v.t = "array"
    [] k \in {"count", "maxItems"} -> v.t = "number" /\ v.d = 1

\* parser.parse against PlannerSchema, of the decoded reply `raw` (an object,
\* or Undef when the text is not JSON): [ok, out].  Unknown keys are stripped,
\* params_patch defaults to {} and missing to [].
PlannerParse(raw) ==
  LET patch == Get(raw, "params_patch")
      missing == Get(raw, "missing")
      ok == /\ IsObj(raw)
            /\ Get(raw, "route").t = "string" /\ Get(raw, "route").v \in RouteEnum
            /\ Get(raw, "rationale").t = "string"
            /\ \/ patch = Undef
               \/ /\ IsObj(patch)
                  /\ \A k \in (DOMAIN patch) \cap PatchKeys : PatchFieldOk(k, patch[k])
            /\ \/ missing = Undef
               \/ /\ missing.t = "array"
                  /\ \A i \in DOMAIN missing.v : missing.v[i] \in MissingEnum
  IN IF ~ok THEN [ok |-> FALSE]
     ELSE [ok |-> TRUE,
           out |-> [route |-> Get(raw, "route").v,
                    params_patch |-> IF patch = Undef THEN EmptyObj
                                     ELSE [k \in (DOMAIN patch) \cap PatchKeys |-> patch[k]],
                    missing |-> IF missing = Undef THEN <<>> ELSE missing.v]]

\* a fallback that forgets to look for the patient
PlannerFallbackCodesOnly(s) ==
  LET hasCodes == Get(s.params, "codes").t = "array" /\ Len(Get(s.params, "codes").v) > 0
  IN [s EXCEPT !.route = IF hasCodes THEN "fetch" ELSE "summarize"]

\* the catch block: the deterministic fallback
PlannerFallback(s) ==
  LET hasPid == Truthy(Get(s.params, "patientId"))
      hasCodes == Get(s.params, "codes").t = "array" /\ Len(Get(s.params, "codes").v) > 0
  IN [s EXCEPT !.route = IF hasPid /\ hasCodes THEN "fetch" ELSE "summarize"]

\* a merge in which the prior value wins over the patch
PlannerDecidePriorWins(s, out) ==
  [s EXCEPT !.params = Spread(out.params_patch, s.params),
            !.route = IF out.route = "fetch" /\ Len(out.missing) # 0 THEN "unknown"
                      ELSE out.route]

\* a decision kept as the collaborator gave it, whatever it lists as missing
PlannerDecideAsGiven(s, out) ==
  [s EXCEPT !.params = Spread(s.params, out.params_patch), !.route = out.route]

\* the try block after a schema-valid reply
PlannerDecide(s, out) ==
  LET merged == Spread(s.params, out.params_patch)
      finalRoute == IF out.route = "fetch" /\ Len(out.missing) # 0 THEN "unknown"
                    ELSE out.route
  IN [s EXCEPT !.params = merged, !.route = finalRoute]

\* a pre-check that compares the query as typed
PreCheckAsTyped(query) ==
  \/ Includes(query, <<"m","e","t","r","i","c","s">>)
  \/ Includes(query, <<"t","a","b","l","e">>)

PreCheck(query) ==
  LET q == ToLowerCase(query)
  IN \/ Includes(q, <<"m","e","t","r","i","c","s">>)
     \/ Includes(q, <<"t","a","b","l","e">>)

\* a planner that asks the collaborator again when the first reply fails
plannerAskingTwice(s, llm) ==
  IF PreCheck(s.query) THEN [s |-> [s EXCEPT !.route = "metrics"], calls |-> 0]
  ELSE IF llm.t = "throws" THEN [s |-> PlannerFallback(s), calls |-> 2]
  ELSE IF ~PlannerParse(llm.raw).ok THEN [s |-> PlannerFallback(s), calls |-> 2]
  ELSE [s |-> PlannerDecide(s, PlannerParse(llm.raw).out), calls |-> 1]

\* planner: [s |-> the state it returns, calls |-> how many times it invoked
\* the collaborator].  llm is what llm.invoke does if it is called:
\* [t |-> "throws"] or [t |-> "reply", raw |-> the decoded text].
planner(s, llm) ==
  IF PreCheck(s.query) THEN [s |-> [s EXCEPT !.route = "metrics"], calls |-> 0]
  ELSE IF llm.t = "throws" THEN [s |-> PlannerFallback(s), calls |-> 1]
  ELSE IF ~PlannerParse(llm.raw).ok THEN [s |-> PlannerFallback(s), calls |-> 1]
  ELSE [s |-> PlannerDecide(s, PlannerParse(llm.raw).out), calls |-> 1]

(***************************************************************************)
(* Retrieval client and data-fetch stage (src/src/mcpClient.mts,           *)
(* src/src/dataAgent.mts).  A client is [sessionId]; `sent` is the list of *)
(* requests it has posted.                                                 *)
(***************************************************************************)
\* ensureSession: [threw, err, client, sent].  init is what the initialize
\* request meets if it is sent: "networkError" (fetch rejects), "notOk" (res.ok
\* is false), "noSessionId" (no Mcp-Session-Id header) or "ok".  Each entry
\* of `sent` keeps what its request met.
ensureSession(client, sent, init) ==
  LET posted == Append(sent, [method |-> "initialize", met |-> init.t])
  IN IF Truthy(client.sessionId)
     THEN [threw |-> FALSE, err |-> "", client |-> client, sent |-> sent]
     ELSE IF init.t = "networkError"
     THEN [threw |-> TRUE, err |-> "fetch failed", client |-> client, sent |-> posted]
     ELSE IF init.t = "notOk"
     THEN [threw |-> TRUE, err |-> "MCP initialize failed", client |-> client,
           sent |-> posted]
     ELSE IF init.t = "noSessionId"
     THEN [threw |-> TRUE, err |-> "No Mcp-Session-Id returned by server.",
           client |-> client, sent |-> posted]
     ELSE [threw |-> FALSE, err |-> "", client |-> [client EXCEPT !.sessionId = init.sid],
           sent |-> posted]

\* what follows ensureSession in callTool, e being what it gave
callToolPost(e, name, args, search) ==
  LET posted == Append(e.sent, [method |-> "tools/call", met |-> search.t, name |-> name,
                                arguments |-> args])
  IN IF e.threw
     THEN [threw |-> TRUE, err |-> e.err, client |-> e.client, sent |-> e.sent,
           payload |-> Undef]
     ELSE IF search.t = "networkError"
     THEN [threw |-> TRUE, err |-> "fetch failed", client |-> e.client, sent |-> posted,
           payload |-> Undef]
     ELSE IF search.t = "notOk"
     THEN [threw |-> TRUE, err |-> "tools/call failed", client |-> e.client,
           sent |-> posted, payload |-> Undef]
     ELSE [threw |-> FALSE, err |-> "", client |-> e.client, sent |-> posted,
           payload |-> search.payload]

\* callTool: [threw, err, client, sent, payload].  search is what the
\* tools/call request meets: "networkError", "notOk", or "ok" with the payload
\* extractPayload finds in the body.
callTool(client, sent, name, args, init, search) ==
  callToolPost(ensureSession(client, sent, init), name, args, search)

\* Array.prototype.join(",")
RECURSIVE JoinComma(_)
JoinComma(xs) ==
  IF xs = <<>> THEN <<>>
  ELSE IF Len(xs) = 1 THEN xs[1]
  ELSE xs[1] \o <<",">> \o JoinComma(Tail(xs))

EmptyBundle == [k \in {"resourceType", "total", "entry"} |->
                  CASE k = "resourceType" -> "Bundle" [] k = "total" -> Num(0)
                    [] k = "entry" -> Arr(<<>>)]

\* the arguments of the search
SearchArgs(params, codes) ==
  [patientId |-> Get(params, "patientId"),
   code |-> codes,
   since |-> Get(params, "since"),
   until |-> Get(params, "until"),
   count |-> Coalesce(Get(params, "count"), Num(DefaultCount)),
   maxItems |-> Coalesce(Get(params, "maxItems"), Num(DefaultMaxItems))]

\* the bundle made of the payload
BundleOf(payload) ==
  [k \in {"resourceType", "total", "entry"} |->
     CASE k = "resourceType" -> "Bundle"
       [] k = "total" -> (IF Get(payload, "totalReturned").t = "number"
                          THEN Get(payload, "totalReturned") ELSE Num(0))
       [] k = "entry" -> Coalesce(Get(payload, "items"), Arr(<<>>))]

\* a data fetch that swallows the failure of the search
dataAgentFetchedQuietly(s, c) ==
  IF c.threw
  THEN [threw |-> FALSE, err |-> "", s |-> [s EXCEPT !.bundle = EmptyBundle],
        client |-> c.client, sent |-> c.sent]
  ELSE [threw |-> FALSE, err |-> "", s |-> [s EXCEPT !.bundle = BundleOf(c.payload)],
        client |-> c.client, sent |-> c.sent]

\* what follows callTool in dataAgent, c being what it gave
dataAgentFetched(s, c) ==
  IF c.threw THEN [threw |-> TRUE, err |-> c.err, s |-> s, client |-> c.client, sent |-> c.sent]
  ELSE [threw |-> FALSE, err |-> "", s |-> [s EXCEPT !.bundle = BundleOf(c.payload)],
        client |-> c.client, sent |-> c.sent]

\* what follows ensureSession in dataAgent, e being what it gave
dataAgentSession(s, e, codes, init, search) ==
  IF e.threw THEN [threw |-> TRUE, err |-> e.err, s |-> s, client |-> e.client, sent |-> e.sent]
  ELSE IF ~Truthy(Get(s.params, "patientId")) \/ ~Truthy(codes)
  THEN [threw |-> FALSE, err |-> "", s |-> [s EXCEPT !.bundle = EmptyBundle],
        client |-> e.client, sent |-> e.sent]
  ELSE dataAgentFetched(s, callTool(e.client, e.sent, "fhir.search_observations",
                                    SearchArgs(s.params, codes), init, search))

\* s.params?.codes?.length ? s.params.codes.join(",") : undefined
JoinedCodes(params) ==
  IF Get(params, "codes").t = "array" /\ Len(Get(params, "codes").v) # 0
  THEN Str(JoinComma(Get(params, "codes").v))
  ELSE Undef

\* dataAgent: [threw, err, s, client, sent]
dataAgent(s, client, sent, init, search) ==
  dataAgentSession(s, ensureSession(client, sent, init), JoinedCodes(s.params), init, search)

(***************************************************************************)
(* The trend node (src/src/trend.mts 347-416), as src/src/graph.mts 14-20  *)
(* configures it: a retrieval client, preferExistingItems, a window of 30  *)
(* days and a cap of 500 items.                                            *)
(***************************************************************************)
MaxCount == 200
TrendDefaultCount == 100
TrendMaxItems == 500
DefaultWindowDays == 30

\* Math.min of two numbers
MathMin(a, b) == IF Less(b, a) THEN b ELSE a

\* s.params?.codes ?? []
TrendCodes(params) == Coalesce(Get(params, "codes"), Arr(<<>>)).v

\* the arguments of the search of the trend node; without params.since the
\* window starts defaultWindowDays before the call
TrendSearchArgs(params) ==
  [patientId |-> Get(params, "patientId"),
   code |-> Str(JoinComma(TrendCodes(params))),
   since |-> Coalesce(Get(params, "since"), [t |-> "daysAgo", days |-> DefaultWindowDays]),
   until |-> Get(params, "until"),
   count |-> MathMin(Num(MaxCount), Coalesce(Get(params, "count"), Num(TrendDefaultCount))),
   maxItems |-> MathMin(Num(TrendMaxItems),
                        Coalesce(Get(params, "maxItems"), Num(TrendMaxItems)))]

\* what res.json() gives callTool for a response that carries the payload
ResponseBody(payload) ==
  [k \in {"jsonrpc", "id", "result"} |->
     CASE k = "jsonrpc" -> Str(<<"2",".","0">>) [] k = "id" -> Num(3)
       [] k = "result" -> payload]

\* Array.isArray(resp?.items) ? resp.items : []
ItemsOfResponse(resp) ==
  IF Get(resp, "items").t = "array" THEN Get(resp, "items").v ELSE <<>>

\* the query of the Trends object
TrendQuery(params, frequency) ==
  [patientId |-> Get(params, "patientId"), codes |-> TrendCodes(params),
   since |-> Get(params, "since"), until |-> Get(params, "until"),
   frequency |-> frequency, count |-> Get(params, "count"),
   maxItems |-> Get(params, "maxItems")]

\* steps 2 to 5 of trendNode: normalize, bucket, stats and flags, stash
TrendsOfItems(params, items, frequency, host, tz) ==
  ("query" :> TrendQuery(params, frequency))
    @@ TrendsOfSeries(FallbackSeries(normalizeToSeries(items, TrendCodes(params), host),
                                     frequency, host, tz),
                      Len(items), host)

\* what follows the choice of the items, f being [threw, err, items, client,
\* sent]
trendNodeItems(s, f, frequency, host, tz) ==
  IF f.threw THEN [threw |-> TRUE, err |-> f.err, s |-> s, client |-> f.client,
                   sent |-> f.sent]
  ELSE [threw |-> FALSE, err |-> "",
        s |-> [s EXCEPT !.trends = TrendsOfItems(s.params, f.items, frequency, host, tz)],
        client |-> f.client, sent |-> f.sent]

\* the fetch of the trend node, c being what callTool gave
trendNodeFetched(c) ==
  [threw |-> c.threw, err |-> c.err,
   items |-> IF c.threw THEN <<>> ELSE ItemsOfResponse(ResponseBody(c.payload)),
   client |-> c.client, sent |-> c.sent]

\* await fhirClient.ensureSession(); await fhirClient.callTool(...)
trendNodeFetch(s, e, init, search) ==
  IF e.threw THEN [threw |-> TRUE, err |-> e.err, items |-> <<>>, client |-> e.client,
                   sent |-> e.sent]
  ELSE trendNodeFetched(callTool(e.client, e.sent, "fhir.search_observations",
                                 TrendSearchArgs(s.params), init, search))

\* step 1 of trendNode: the entries of the bundle if it has any, else a fetch
trendNodeSource(s, client, sent, init, search) ==
  IF Len(BundleItems(s)) > 0
  THEN [threw |-> FALSE, err |-> "", items |-> BundleItems(s), client |-> client,
        sent |-> sent]
  ELSE trendNodeFetch(s, ensureSession(client, sent, init), init, search)

\* trendNode: [threw, err, s, client, sent]
trendNode(s, client, sent, init, search, frequency, host, tz) ==
  IF ~Truthy(Get(s.params, "patientId")) \/ Len(TrendCodes(s.params)) = 0
  THEN [threw |-> FALSE, err |-> "", s |-> [s EXCEPT !.trends = Undef],
        client |-> client, sent |-> sent]
  ELSE trendNodeItems(s, trendNodeSource(s, client, sent, init, search), frequency,
                      host, tz)

(***************************************************************************)
(* Orchestrator (src/src/graph.mts) and the tool handler                   *)
(* (src/src/server.mts).                                                   *)
(***************************************************************************)
\* the nodes added to the graph
Nodes == {"intake", "planner", "data_agent", "trend", "summarizer"}

\* the conditional edge out of planner
PlannerEdge(route) == IF route \in {"fetch", "metrics"} THEN "data_agent" ELSE route

\* addEdge(from, to) for the other nodes
EdgeFrom(node) ==
  CASE node = "START" -> "intake"
    [] node = "intake" -> "planner"
    [] node = "data_agent" -> "summarizer"
    [] node = "trend" -> "END"
    [] node = "summarizer" -> "END"

\* the reducer of the params channel
ParamsReducer(prev, next) == Spread(prev, next)

NoRoute == "(undefined)"

(***************************************************************************)
(* The inputs explored: queries, caller params, replies of the             *)
(* text-generation collaborator, responses of the retrieval collaborator.  *)
(***************************************************************************)
\* "patient abc-1 blood pressure since 2024-01-01"
QueryBp ==
    <<"p","a","t","i","e","n","t"," ","a","b","c","-","1"," ","b","l","o","o","d"," ","p",
      "r","e","s","s","u","r","e"," ","s","i","n","c","e"," ","2","0","2","4","-","0","1",
      "-","0","1">>
\* "show METRICS for patient p1 bp"
QueryMetrics ==
    <<"s","h","o","w"," ","M","E","T","R","I","C","S"," ","f","o","r"," ","p","a","t","i",
      "e","n","t"," ","p","1"," ","b","p">>
\* "pid: 7 heart rate Table"
QueryTable ==
    <<"p","i","d",":"," ","7"," ","h","e","a","r","t"," ","r","a","t","e"," ","T","a","b",
      "l","e">>
\* "summarize since 2024-02-10"
QuerySummarize ==
    <<"s","u","m","m","a","r","i","z","e"," ","s","i","n","c","e"," ","2","0","2","4","-",
      "0","2","-","1","0">>
\* "bp count=50 max 300"
QueryCodesOnly ==
    <<"b","p"," ","c","o","u","n","t","=","5","0"," ","m","a","x"," ","3","0","0">>
\* ""
QueryEmpty ==
    <<>>
\* " patient p2 8480-6 and https://loinc.org|8480-6 count 12345 "
QueryLoinc ==
    <<" ","p","a","t","i","e","n","t"," ","p","2"," ","8","4","8","0","-","6"," ","a","n",
      "d"," ","h","t","t","p","s",":","/","/","l","o","i","n","c",".","o","r","g","|","8",
      "4","8","0","-","6"," ","c","o","u","n","t"," ","1","2","3","4","5"," ">>
\* "alert on spo2 for patientId: zed_9 until 2024/3/1"
QueryAlert ==
    <<"a","l","e","r","t"," ","o","n"," ","s","p","o","2"," ","f","o","r"," ","p","a","t",
      "i","e","n","t","I","d",":"," ","z","e","d","_","9"," ","u","n","t","i","l"," ","2",
      "0","2","4","/","3","/","1">>

Queries == {QueryBp, QueryMetrics, QueryTable, QuerySummarize, QueryCodesOnly, QueryEmpty, QueryLoinc, QueryAlert}

PatientP9 == Str(<<"p","9">>)
PatientP7 == Str(<<"p","7">>)
Since2023 == Str(<<"2","0","2","3","-","0","6","-","0","1","T","0","0",":","0","0",":","0","0",
                   ".","0","0","0","Z">>)

\* input.params of the tool call (RunInput: any record, default {})
CallerParams ==
  { EmptyObj,
    ("patientId" :> PatientP9),
    ("patientId" :> PatientP9) @@ ("codes" :> Arr(<<HR>>)) @@ ("count" :> Num(50))
      @@ ("since" :> Since2023) }

Rationale == Str(<<"o","k">>)
Reply(obj) == [t |-> "reply", raw |-> obj]

\* what llm.invoke of the planner does
PlannerReplies ==
  { [t |-> "throws"],
    \* not JSON
    Reply(Undef),
    \* schema-invalid: a route outside the enum, no rationale, a mistyped
    \* patch field, a name outside the missing enum
    Reply(("route" :> Str("trend")) @@ ("rationale" :> Rationale)),
    Reply(("route" :> Str("fetch"))),
    Reply(("route" :> Str("fetch")) @@ ("rationale" :> Rationale)
            @@ ("params_patch" :> ("count" :> Str(<<"t","e","n">>)))),
    Reply(("route" :> Str("unknown")) @@ ("rationale" :> Rationale)
            @@ ("missing" :> Arr(<<"count">>))),
    \* schema-valid
    Reply(("route" :> Str("fetch")) @@ ("rationale" :> Rationale)),
    Reply(("route" :> Str("fetch")) @@ ("rationale" :> Rationale)
            @@ ("missing" :> Arr(<<"patientId">>))),
    Reply(("route" :> Str("fetch")) @@ ("rationale" :> Rationale)
            @@ ("params_patch" :> ("patientId" :> PatientP7)) @@ ("missing" :> Arr(<<>>))),
    Reply(("route" :> Str("fetch")) @@ ("rationale" :> Rationale)
            @@ ("params_patch" :> (("codes" :> Arr(<<SYS, DIA, SYS>>))
                                     @@ ("count" :> Num(500)) @@ ("maxItems" :> Num(9000))
                                     @@ ("note" :> Rationale)))),
    Reply(("route" :> Str("summarize")) @@ ("rationale" :> Rationale)
            @@ ("params_patch" :> EmptyObj)),
    Reply(("route" :> Str("summarize")) @@ ("rationale" :> Rationale)
            @@ ("params_patch" :> ("until" :> Since2023))
            @@ ("missing" :> Arr(<<"patientId">>))),
    Reply(("route" :> Str("alert")) @@ ("rationale" :> Rationale)),
    Reply(("route" :> Str("unknown")) @@ ("rationale" :> Rationale)
            @@ ("missing" :> Arr(<<"codes", "since">>))),
    Reply(("route" :> Str("metrics")) @@ ("rationale" :> Rationale)) }

\* observation records of the retrieval collaborator
ObsSys185 ==
  ("loinc" :> Str(<<"8","4","8","0","-","6">>))
    @@ ("value" :> Num(185))
    @@ ("unit" :> Str(<<"m","m","H","g">>))
    @@ ("when" :> Str(<<"2","0","2","4","-","0","1","-","0","2","T","1","0",":","0","0",":","0","0",".","0","0","0","Z">>))
    @@ ("status" :> Str(<<"f","i","n","a","l">>))
ObsDia80 ==
  ("code" :> (("system" :> Str(LOINC)) @@ ("code" :> Str(<<"8","4","6","2","-","4">>)) @@ ("display" :> Str(<<"D","B","P">>))))
    @@ ("valueQuantity" :> (("value" :> Num(80)) @@ ("unit" :> Str(<<"m","m","H","g">>))))
    @@ ("effectiveDateTime" :> Str(<<"2","0","2","4","-","0","1","-","0","2","T","1","0",":","0","0",":","0","0",".","0","0","0","Z">>))
ObsSys150 ==
  ("code" :> (("system" :> Str(LOINC)) @@ ("code" :> Str(<<"8","4","8","0","-","6">>)) @@ ("display" :> Str(<<"S","B","P">>))))
    @@ ("value" :> Num(150))
    @@ ("when" :> Str(<<"2","0","2","4","-","0","1","-","0","1">>))
ObsNaN ==
  ("loinc" :> Str(<<"8","8","6","7","-","4">>))
    @@ ("value" :> NaN)
    @@ ("valueQuantity" :> ("value" :> Num(70)))
    @@ ("when" :> Str(<<"2","0","2","4","-","0","1","-","0","1">>))
ObsText ==
  ("loinc" :> Str(<<"8","8","6","7","-","4">>))
    @@ ("value" :> Str(<<"7","2">>))
    @@ ("when" :> Str(<<"y","e","s","t","e","r","d","a","y">>))
ObsBadDate ==
  ("loinc" :> Str(<<"8","8","6","7","-","4">>))
    @@ ("value" :> Num(72))
    @@ ("when" :> Str(<<"n","o","t","-","a","-","d","a","t","e">>))
ObsNoWhen ==
  ("loinc" :> Str(<<"8","8","6","7","-","4">>))
    @@ ("value" :> Num(70))
ObsNull ==
  ("loinc" :> Str(<<"5","9","4","0","8","-","5">>))
    @@ ("value" :> Null)
    @@ ("when" :> Str(<<"2","0","2","4","-","0","1","-","0","3">>))

BundleGood == <<ObsSys185, ObsDia80, ObsSys150>>
\* records that series construction must skip
BundleSkip == <<ObsNaN, ObsText, ObsNoWhen, ObsSys150>>
\* a finite value with a timestamp that is no date
BundleBadDate == <<ObsSys150, ObsBadDate, ObsDia80>>
\* no record has a numeric value
BundleNoValues == <<ObsNull, ObsText>>

\* a record with a coded concept, for a code, a value and a day of January 2024
Coded(code, v, day) ==
  ("code" :> (("system" :> Str(LOINC)) @@ ("code" :> Str(stripSystem(code)))))
    @@ ("value" :> Num(v))
    @@ ("when" :> Str(<<"2","0","2","4","-","0","1","-">> \o Pad(day, 2)))
\* six heart-rate readings and one systolic reading
BundleMany ==
  << Coded(HR, 70, 1), Coded(HR, 72, 2), Coded(HR, 74, 3), Coded(SYS, 120, 3),
     Coded(HR, 76, 4), Coded(HR, 78, 5), Coded(HR, 80, 6) >>

Bundles == {<<>>, BundleGood, BundleSkip, BundleBadDate, BundleNoValues, BundleMany}

SessionA == Str(<<"s","i","d","-","1">>)

\* what the initialize request meets
InitOutcomes ==
  { [t |-> "networkError"], [t |-> "notOk"], [t |-> "noSessionId"],
    [t |-> "ok", sid |-> SessionA] }

\* what the tools/call request meets
SearchOutcomes ==
  { [t |-> "networkError"], [t |-> "notOk"], [t |-> "ok", payload |-> EmptyObj] }
  \cup { [t |-> "ok", payload |-> ("items" :> Arr(b)) @@ ("totalReturned" :> Num(Len(b)))]
         : b \in Bundles }

\* what llm.invoke of the summarizer does
Narratives ==
  { [t |-> "throws"], Str(<<>>), Str(<<" ", " ">>),
    Str(<<" ","S","t","a","b","l","e","."," ">>),
    Arr(<< ("text" :> Str(<<"B","P">>)), ("type" :> Str(<<"x">>)) >>) }

\* the host: what its Date makes of a text outside the standard formats, and
\* how many minutes its local time is ahead of UTC
Hosts ==
  { [host |-> InvalidDate, tz |-> 0],
    [host |-> DateVal(DaysFromCivil(2024, 3, 1) * 1440 - 330, 0), tz |-> 330] }

\* the bucketing mode makeTrendNode may be given (Frequency)
Frequencies == {"auto", "hourly", "daily", "weekly"}

\* an ISO instant of January 2024
StampAt(day, hour, minute) ==
  <<"2","0","2","4","-","0","1","-">> \o Pad(day, 2) \o <<"T">> \o Pad(hour, 2) \o <<":">>
    \o Pad(minute, 2) \o <<":","0","0",".","0","0","0","Z">>

\* a record of the retrieval collaborator for a code, a value and a time
Reading(code, v, day, hour, minute) ==
  ("loinc" :> Str(stripSystem(code))) @@ ("value" :> Num(v))
    @@ ("when" :> Str(StampAt(day, hour, minute)))

\* systolic readings out of order: three within one hour of Tuesday 2 January,
\* two on the next day, one a week later; and one diastolic reading
BundleHours ==
  << Reading(SYS, 130, 2, 10, 20), Reading(SYS, 120, 2, 10, 0), Reading(DIA, 80, 2, 10, 0),
     Reading(SYS, 140, 3, 23, 30), Reading(SYS, 125, 2, 10, 40),
     Reading(SYS, 110, 9, 0, 10), Reading(SYS, 150, 3, 1, 0) >>

\* systolic readings that rise, and no diastolic reading
BundleSysRising == <<ObsSys150, ObsSys185>>

\* a systolic reading and a reading whose code has the same bare part under
\* another coding system
LocalSystem == <<"u","r","n",":","l","o","c","a","l">>
ObsLocal ==
  ("code" :> (("system" :> Str(LocalSystem)) @@ ("code" :> Str(stripSystem(SYS)))))
    @@ ("value" :> Num(42))
    @@ ("when" :> Str(<<"2","0","2","4","-","0","1","-","0","1">>))
BundleOtherSystem == <<ObsSys150, ObsLocal>>

\* the bundle a data fetch left in the state
BundleWith(items) ==
  [k \in {"resourceType", "total", "entry"} |->
     CASE k = "resourceType" -> "Bundle" [] k = "total" -> Num(Len(items))
       [] k = "entry" -> Arr(items)]

TrendBundles ==
  {Undef, EmptyBundle}
    \cup {BundleWith(b) : b \in {BundleGood, BundleSkip, BundleBadDate, BundleNoValues,
                                   BundleHours, BundleSysRising,
                                   BundleOtherSystem}}

\* latest values on both sides of every threshold; 0 stands for no reading
SysGrid == {0, 159, 160, 179, 180}
DiaGrid == {0, 99, 100, 119, 120}
HrGrid == {0, 39, 40, 130, 131}
Spo2Grid == {0, 89, 90, 92, 93}

VitalReading(code, v) == IF v = 0 THEN <<>> ELSE <<Reading(code, v, 5, 8, 0)>>

VitalBundles ==
  {BundleWith(VitalReading(SYS, sys) \o VitalReading(DIA, dia) \o VitalReading(HR, hr)
                \o VitalReading(SPO2, sp))
     : sys \in SysGrid, dia \in DiaGrid, hr \in HrGrid, sp \in Spo2Grid}

\* params as the earlier stages may leave them
ParamsAllVitals ==
  ("patientId" :> PatientP9) @@ ("codes" :> Arr(<<SYS, DIA, HR, SPO2>>))
    @@ ("count" :> Num(500)) @@ ("maxItems" :> Num(9000))
ParamsBp ==
  ("patientId" :> PatientP7) @@ ("codes" :> Arr(<<stripSystem(SYS), DIA>>))
    @@ ("since" :> Since2023) @@ ("count" :> Num(50))
ParamsNoPatient == ("patientId" :> Undef) @@ ("codes" :> Arr(<<SYS>>))
ParamsNoCodes == ("patientId" :> PatientP9) @@ ("codes" :> Arr(<<>>))

TrendParams == {ParamsAllVitals, ParamsBp, ParamsNoPatient, ParamsNoCodes}

(***************************************************************************)
(* One invocation of the tool vitalflow-run (src/src/server.mts 38-62)     *)
(* over the compiled graph (src/src/graph.mts 22-44).                      *)
(*   state    the channels of the graph (src/src/state.mts)                *)
(*   pc       the node the graph runs next; "END" when the graph has       *)
(*            finished, "threw" when invoke has rejected, "done" when the  *)
(*            handler has returned                                         *)
(*   error    the message of the error invoke rejected with                *)
(*   stages   the nodes that have run, in order                            *)
(*   llmCalls how many times the planner invoked its collaborator          *)
(*   llmReply what the collaborator did when the planner invoked it        *)
(*   client   the retrieval client of the thread: [sessionId]              *)
(*   sent     the requests posted to the retrieval collaborator            *)
(*   response what the handler returned                                    *)
(*   input    the arguments of the call, env the host it runs on           *)
(* and the state of the module that keeps the retrieval clients            *)
(* (src/unnamed/part_000), shared by every invocation of the process:      *)
(*   clientsByThread  the Map: thread id -> the handle of its client       *)
(*   clients  every McpHttpClient constructed so far; the handle of a      *)
(*            client is its position here                                  *)
(*   calls    the getMcpClient calls made so far, each with what it        *)
(*            returned                                                     *)
(*   tasks    the invocations of dataAgent under way, each with the        *)
(*            await it is suspended at                                     *)
(***************************************************************************)
VARIABLES state, pc, error, stages, llmCalls, llmReply, client, sent, response, input, env
VARIABLES clientsByThread, clients, calls, tasks

pipeline == <<state, pc, error, stages, llmCalls, llmReply, client, sent, response, input,
              env>>
registry == <<clientsByThread, clients, calls, tasks>>
vars == <<pipeline, registry>>

\* the module of the clients as it is loaded: an empty Map
RegistryInit ==
  /\ clientsByThread = <<>>
  /\ clients = <<>>
  /\ calls = <<>>
  /\ tasks = <<>>

NoResponse == [isError |-> FALSE, text |-> Undef]
NotAsked == [t |-> "notAsked"]

\* invoke(input): the channels hold the input, params after its reducer over
\* the default {}; the client of the thread may hold a session of an earlier
\* call
Init ==
  /\ input \in [query : Queries, params : CallerParams]
  /\ env \in Hosts
  /\ state = [query |-> input.query, params |-> ParamsReducer(EmptyObj, input.params),
              route |-> NoRoute, bundle |-> Undef, trends |-> Undef, summary |-> Undef]
  /\ pc = EdgeFrom("START")
  /\ error = ""
  /\ stages = <<>>
  /\ llmCalls = 0
  /\ llmReply = NotAsked
  /\ client \in {[sessionId |-> Undef], [sessionId |-> SessionA]}
  /\ sent = <<>>
  /\ response = NoResponse
  /\ RegistryInit

\* the state s with the keys a node returned in r written over it
Returned(s, r) == [k \in DOMAIN s |-> IF k \in DOMAIN r THEN r[k] ELSE s[k]]

\* the channels after a node returned the state r
Update(r) == [r EXCEPT !.params = ParamsReducer(state.params, r.params)]

Intake ==
  /\ pc = "intake"
  /\ state' = Update(Returned(state, intakeNode([query |-> state.query], env.host)))
  /\ pc' = EdgeFrom("intake")
  /\ stages' = Append(stages, "intake")
  /\ UNCHANGED <<error, llmCalls, llmReply, client, sent, response, input, env>>
  /\ UNCHANGED registry

\* the planner node and the conditional edge out of it.  A destination that
\* is no node of the graph is outside what the library defines: the run
\* either rejects or ends there.
Planner ==
  /\ pc = "planner"
  /\ \E llm \in PlannerReplies :
       LET r == planner(state, llm)
           dest == PlannerEdge(Update(r.s).route)
       IN /\ state' = Update(r.s)
          /\ llmCalls' = llmCalls + r.calls
          /\ llmReply' = IF r.calls = 0 THEN llmReply ELSE llm
          /\ \/ /\ dest \in Nodes
                /\ pc' = dest
                /\ error' = error
             \/ /\ dest \notin Nodes
                /\ pc' = "threw"
                /\ error' = "Branch condition returned unknown or null destination"
             \/ /\ dest \notin Nodes
                /\ pc' = "END"
                /\ error' = error
  /\ stages' = Append(stages, "planner")
  /\ UNCHANGED <<client, sent, response, input, env>>
  /\ UNCHANGED registry

\* a node returned r, or threw: the run goes on along the node's edge, or
\* invoke rejects with the error
Settle(node, r, err) ==
  IF r.threw
  THEN /\ pc' = "threw"
       /\ error' = err
       /\ state' = state
  ELSE /\ pc' = EdgeFrom(node)
       /\ error' = error
       /\ state' = Update(r.s)

DataAgentEnds(r) ==
  /\ client' = r.client
  /\ sent' = r.sent
  /\ Settle("data_agent", r, r.err)

DataAgent ==
  /\ pc = "data_agent"
  /\ \E init \in InitOutcomes, search \in SearchOutcomes :
       DataAgentEnds(dataAgent(state, client, sent, init, search))
  /\ stages' = Append(stages, "data_agent")
  /\ UNCHANGED <<llmCalls, llmReply, response, input, env>>
  /\ UNCHANGED registry

Summarizer ==
  /\ pc = "summarizer"
  /\ \E llm \in Narratives :
       Settle("summarizer", summarizer(state, llm, env.host, env.tz),
              "Invalid time value")
  /\ stages' = Append(stages, "summarizer")
  /\ UNCHANGED <<llmCalls, llmReply, client, sent, response, input, env>>
  /\ UNCHANGED registry

\* the handler returns: the summary, or the error of the run
Respond ==
  /\ pc \in {"END", "threw"}
  /\ response' = IF pc = "END"
                 THEN [isError |-> FALSE,
                       text |-> Coalesce(state.summary,
                                         [kind |-> "message", msg |-> "No output"])]
                 ELSE [isError |-> TRUE,
                       text |-> [kind |-> "error", prefix |-> "VitalFlow error: ",
                                 msg |-> error]]
  /\ pc' = "done"
  /\ UNCHANGED <<state, error, stages, llmCalls, llmReply, client, sent, input, env>>
  /\ UNCHANGED registry

Next == Intake \/ Planner \/ DataAgent \/ Summarizer \/ Respond

Spec == Init /\ [][Next]_vars

(***************************************************************************)
(* The graph entered at its trend node (src/src/graph.mts 26, 41): the     *)
(* node runs on a state the earlier stages left, with the bucketing mode   *)
(* env.frequency, and its edge leads to END.                               *)
(***************************************************************************)
TrendState(params, bundle) ==
  [query |-> QueryBp, params |-> params, route |-> "fetch", bundle |-> bundle,
   trends |-> Undef, summary |-> Undef]

TrendInit ==
  /\ \/ /\ env \in [host : {h.host : h \in Hosts}, tz : {h.tz : h \in Hosts},
                    frequency : Frequencies]
        /\ \E h \in Hosts : h.host = env.host /\ h.tz = env.tz
        /\ state \in {TrendState(p, b) : p \in TrendParams, b \in TrendBundles}
        /\ client \in {[sessionId |-> Undef], [sessionId |-> SessionA]}
     \/ /\ env = [host |-> InvalidDate, tz |-> 0, frequency |-> "auto"]
        /\ state \in {TrendState(ParamsAllVitals, b) : b \in VitalBundles}
        /\ client = [sessionId |-> SessionA]
  /\ input = [query |-> state.query, params |-> state.params]
  /\ pc = "trend"
  /\ error = ""
  /\ stages = <<>>
  /\ llmCalls = 0
  /\ llmReply = NotAsked
  /\ sent = <<>>
  /\ response = NoResponse
  /\ RegistryInit

TrendEnds(r) ==
  /\ client' = r.client
  /\ sent' = r.sent
  /\ Settle("trend", r, r.err)

\* the trend node posts requests only when it has a patient, a code and no
\* entries to reuse
TrendFetches(s) ==
  /\ Truthy(Get(s.params, "patientId"))
  /\ Len(TrendCodes(s.params)) # 0
  /\ Len(BundleItems(s)) = 0

Trend ==
  /\ pc = "trend"
  /\ \E init \in IF TrendFetches(state) THEN InitOutcomes ELSE {[t |-> "notOk"]},
        search \in IF TrendFetches(state) THEN SearchOutcomes ELSE {[t |-> "notOk"]} :
       TrendEnds(trendNode(state, client, sent, init, search, env.frequency, env.host,
                           env.tz))
  /\ stages' = Append(stages, "trend")
  /\ UNCHANGED <<llmCalls, llmReply, response, input, env>>
  /\ UNCHANGED registry

TrendNext == Trend \/ Respond

TrendSpec == TrendInit /\ [][TrendNext]_vars

(***************************************************************************)
(* Invocations of dataAgent that run in one process and interleave at      *)
(* their awaits (src/src/dataAgent.mts 13-33, src/src/mcpClient.mts 23-87, *)
(* src/unnamed/part_000 4-13).  What runs between two awaits runs as one   *)
(* step.  A handle is the position of a client in `clients`; a client is   *)
(* [sessionId, sent], sent holding the requests it posted, each with what  *)
(* it met ("pending" until its response is there).  A task is              *)
(* [threadId, c, req, pc]: the thread id of the invocation, its client,    *)
(* the request it awaits, and the await it is suspended at:                *)
(*   "ensureSession"           the fetch of line 37, called from line 16   *)
(*   "ensured"                 the await of dataAgent line 16              *)
(*   "callTool.ensureSession"  the fetch of line 37, called from line 70   *)
(*   "callTool.ensured"        the await of callTool line 70               *)
(*   "tools/call"              the fetch of line 77                        *)
(*   "returned", "threw"       the invocation is over                      *)
(***************************************************************************)
MaxInvocations == 3

ThreadIds == {"vf-thread-1", "default-thread"}

SessionB == Str(<<"s","i","d","-","2">>)

\* what an initialize request meets: the server names the session
SessionOutcomes == InitOutcomes \cup {[t |-> "ok", sid |-> SessionB]}

\* new McpHttpClient(baseUrl, apiKey)
NewClient == [sessionId |-> Undef, sent |-> <<>>]

\* a getMcpClient that constructs a client on every call
getMcpClientFresh(byThread, cs, threadId) ==
  [clientsByThread |-> (threadId :> (Len(cs) + 1)) @@ byThread,
   clients |-> Append(cs, NewClient),
   c |-> Len(cs) + 1]

\* getMcpClient(threadId, baseUrl): the Map and the clients after the call,
\* and the handle c it returns
getMcpClient(byThread, cs, threadId) ==
  IF threadId \in DOMAIN byThread
  THEN [clientsByThread |-> byThread, clients |-> cs, c |-> byThread[threadId]]
  ELSE [clientsByThread |-> (threadId :> (Len(cs) + 1)) @@ byThread,
        clients |-> Append(cs, NewClient),
        c |-> Len(cs) + 1]

\* ensureSession up to its first await: it returns at once when the client
\* has a session id, else it posts initialize; req is the request it then
\* awaits, 0 when it posted none
ensureSessionBegins(cs, c) ==
  IF Truthy(cs[c].sessionId) THEN [clients |-> cs, req |-> 0]
  ELSE [clients |-> [cs EXCEPT ![c].sent =
                       Append(@, [method |-> "initialize", met |-> "pending"])],
        req |-> Len(cs[c].sent) + 1]

\* ensureSession after its fetch: it throws, or stores the session id
ensureSessionEnds(cs, c, req, init) ==
  LET met == [cs EXCEPT ![c].sent[req].met = init.t]
  IN IF init.t = "ok" THEN [threw |-> FALSE, clients |-> [met EXCEPT ![c].sessionId = init.sid]]
     ELSE [threw |-> TRUE, clients |-> met]

SessionInit ==
  /\ RegistryInit
  /\ state = Undef
  /\ pc = "data_agent"
  /\ error = ""
  /\ stages = <<>>
  /\ llmCalls = 0
  /\ llmReply = NotAsked
  /\ client = NewClient
  /\ sent = <<>>
  /\ response = NoResponse
  /\ input = Undef
  /\ env = Undef

\* dataAgent lines 13-16: the client of the thread, and ensureSession up to
\* its first await
DataAgentStarts ==
  /\ Len(tasks) < MaxInvocations
  /\ \E threadId \in ThreadIds :
       LET g == getMcpClient(clientsByThread, clients, threadId)
           e == ensureSessionBegins(g.clients, g.c)
       IN /\ clientsByThread' = g.clientsByThread
          /\ clients' = e.clients
          /\ calls' = Append(calls, [threadId |-> threadId, c |-> g.c])
          /\ tasks' = Append(tasks, [threadId |-> threadId, c |-> g.c, req |-> e.req,
                                     pc |-> IF e.req = 0 THEN "ensured"
                                            ELSE "ensureSession"])
  /\ UNCHANGED pipeline

\* the response to an initialize request is there (mcpClient.mts 43-56)
InitializeEnds ==
  /\ \E i \in DOMAIN tasks, init \in SessionOutcomes :
       LET t == tasks[i]
           e == ensureSessionEnds(clients, t.c, t.req, init)
       IN /\ t.pc \in {"ensureSession", "callTool.ensureSession"}
          /\ clients' = e.clients
          /\ tasks' = [tasks EXCEPT ![i].req = 0,
                                    ![i].pc = IF e.threw THEN "threw"
                                              ELSE IF t.pc = "ensureSession" THEN "ensured"
                                              ELSE "callTool.ensured"]
  /\ UNCHANGED <<clientsByThread, calls>>
  /\ UNCHANGED pipeline

\* dataAgent lines 18-33: the short-circuit when the params of the
\* invocation lack a patient or a code, else callTool up to its first await
DataAgentGoesOn ==
  /\ \E i \in DOMAIN tasks, fetches \in BOOLEAN :
       LET t == tasks[i]
           e == ensureSessionBegins(clients, t.c)
       IN /\ t.pc = "ensured"
          /\ IF ~fetches
             THEN /\ tasks' = [tasks EXCEPT ![i].pc = "returned"]
                  /\ clients' = clients
             ELSE /\ tasks' = [tasks EXCEPT ![i].req = e.req,
                                            ![i].pc = IF e.req = 0 THEN "callTool.ensured"
                                                      ELSE "callTool.ensureSession"]
                  /\ clients' = e.clients
  /\ UNCHANGED <<clientsByThread, calls>>
  /\ UNCHANGED pipeline

\* callTool lines 71-81: the tools/call request is posted
CallToolPosts ==
  /\ \E i \in DOMAIN tasks :
       LET t == tasks[i]
       IN /\ t.pc = "callTool.ensured"
          /\ clients' = [clients EXCEPT ![t.c].sent =
                           Append(@, [method |-> "tools/call", met |-> "pending"])]
          /\ tasks' = [tasks EXCEPT ![i].req = Len(clients[t.c].sent) + 1,
                                    ![i].pc = "tools/call"]
  /\ UNCHANGED <<clientsByThread, calls>>
  /\ UNCHANGED pipeline

\* callTool lines 82-86 and dataAgent lines 34-43: the response to tools/call
CallToolEnds ==
  /\ \E i \in DOMAIN tasks, met \in {"networkError", "notOk", "ok"} :
       LET t == tasks[i]
       IN /\ t.pc = "tools/call"
          /\ clients' = [clients EXCEPT ![t.c].sent[t.req].met = met]
          /\ tasks' = [tasks EXCEPT ![i].req = 0,
                                    ![i].pc = IF met = "ok" THEN "returned" ELSE "threw"]
  /\ UNCHANGED <<clientsByThread, calls>>
  /\ UNCHANGED pipeline

SessionNext ==
  DataAgentStarts \/ InitializeEnds \/ DataAgentGoesOn \/ CallToolPosts \/ CallToolEnds

SessionSpec == SessionInit /\ [][SessionNext]_vars

(***************************************************************************)
(* Properties.                                                             *)
(***************************************************************************)
\* the node that ran last, or "" before any
LastStage == IF stages = <<>> THEN "" ELSE stages[Len(stages)]

\* the Router has run
RouterRan == \E i \in DOMAIN stages : stages[i] = "planner"

\* query contains word in any letter case
ContainsAnyCase(q, word) ==
  \E i \in 1..(Len(q) - Len(word) + 1) :
    \A k \in 1..Len(word) : LowerChar(q[i + k - 1]) = word[k]

MentionsMetrics(q) ==
  \/ ContainsAnyCase(q, <<"m","e","t","r","i","c","s">>)
  \/ ContainsAnyCase(q, <<"t","a","b","l","e">>)

\* the collaborator was invoked and threw, or its output failed the schema
ReplyFailed(reply) ==
  \/ reply.t = "throws"
  \/ reply.t = "reply" /\ ~PlannerParse(reply.raw).ok

\* the collaborator was invoked and returned a schema-valid decision
ReplyValid(reply) == reply.t = "reply" /\ PlannerParse(reply.raw).ok

HoldsPatient(params) ==
  /\ "patientId" \in DOMAIN params
  /\ params["patientId"].t = "string"
  /\ params["patientId"].v # <<>>

HoldsCode(params) ==
  /\ "codes" \in DOMAIN params
  /\ params["codes"].t = "array"
  /\ Len(params["codes"].v) >= 1

\* C1: whatever route the Router produced, the edge taken out of the Router
\* names a node of the graph, and a run that reaches the end of the graph
\* has set a summary.
C1_EveryRouteReachesSummary ==
  /\ LastStage = "planner" => PlannerEdge(state.route) \in Nodes
  /\ pc = "END" => state.summary # Undef

\* C2: a Router run whose collaborator threw or failed the schema (the
\* pre-check not matching) ends with route fetch if params held a non-empty
\* patientId and at least one code, with route summarize otherwise, and
\* with params as they were on entry.
C2_FallbackIsTotalAndKeepsParams ==
  [][(pc = "planner" /\ ~MentionsMetrics(state.query) /\ ReplyFailed(llmReply'))
       => /\ state'.route = (IF HoldsPatient(state.params) /\ HoldsCode(state.params)
                             THEN "fetch" ELSE "summarize")
          /\ state'.params = state.params
          /\ state'.query = state.query]_vars

\* the reply failed the schema and the run fell back to summarize: params
\* held codes but no patient
C2_Witness ==
  /\ LastStage = "planner"
  /\ ReplyFailed(llmReply)
  /\ llmReply.t = "reply"
  /\ state.route = "summarize"
  /\ HoldsCode(state.params)
  /\ ~HoldsPatient(state.params)

\* C3: in one Router run the collaborator is invoked at most once: never
\* when the pre-check matches, and once, not twice, when its call fails.
C3_CollaboratorInvokedAtMostOnce ==
  /\ llmCalls <= 1
  /\ RouterRan /\ MentionsMetrics(state.query) => llmCalls = 0 /\ llmReply = NotAsked
  /\ RouterRan /\ ~MentionsMetrics(state.query) => llmCalls = 1 /\ llmReply # NotAsked

\* the collaborator threw and was not asked again
C3_Witness ==
  /\ LastStage = "planner"
  /\ llmReply.t = "throws"
  /\ llmCalls = 1

\* C4: a query that contains "metrics" or "table" in any letter case leaves
\* the Router with route metrics, whatever else the query, the params and
\* the intake hint hold.
C4_MetricsPreCheckWins ==
  RouterRan /\ MentionsMetrics(state.query) => state.route = "metrics"

\* the query says METRICS in capitals, names a patient and a vital (the
\* intake hint was fetch) and the caller supplied params
C4_Witness ==
  /\ LastStage = "planner"
  /\ state.query = QueryMetrics
  /\ intakeNode([query |-> input.query], env.host).route = "fetch"
  /\ input.params # EmptyObj
  /\ state.route = "metrics"

\* C5: after a schema-valid decision the route is unknown if the decision
\* was fetch with a non-empty missing list, and the decided route
\* otherwise; once the Router has run the route is one of its five routes.
C5_FetchWithMissingIsUnknown ==
  [][pc = "planner"
       => /\ state'.route \in RouteEnum
          /\ ReplyValid(llmReply')
               => LET out == PlannerParse(llmReply'.raw).out
                  IN state'.route = (IF out.route = "fetch" /\ out.missing # <<>>
                                     THEN "unknown" ELSE out.route)]_vars

\* the collaborator decided fetch and listed patientId as missing
C5_Witness ==
  /\ LastStage = "planner"
  /\ ReplyValid(llmReply)
  /\ Get(llmReply.raw, "route") = Str("fetch")
  /\ Get(llmReply.raw, "missing") = Arr(<<"patientId">>)
  /\ state.route = "unknown"

\* C6: when the Router starts, every field the caller supplied that intake
\* did not find in the query still holds the caller's value.
C6_CallerParamsSurviveIntake ==
  pc = "planner" =>
    \A k \in DOMAIN input.params :
      intakeNode([query |-> input.query], env.host).params[k] = Undef
        => k \in DOMAIN state.params /\ state.params[k] = input.params[k]

\* the patches tried in either order: every choice of fields among these,
\* each with one of its values
PatchValues ==
  [k \in {"patientId", "codes", "count"} |->
     CASE k = "patientId" -> {PatientP7, PatientP9}
       [] k = "codes" -> {Arr(<<HR>>)}
       [] k = "count" -> {Num(5)}]

Patches ==
  UNION { [ks -> UNION {PatchValues[k] : k \in ks}] : ks \in SUBSET DOMAIN PatchValues }

WellTyped(patch) == \A k \in DOMAIN patch : patch[k] \in PatchValues[k]

\* the params channel after the Router, entered with params, has merged the
\* patch of a decision
RouterMerged(params, patch) ==
  ParamsReducer(params,
    PlannerDecide([state EXCEPT !.params = params],
                  [route |-> "summarize", params_patch |-> patch, missing |-> <<>>]).params)

\* params after the patch p1 and then the patch p2
MergedTwice(params, p1, p2) == RouterMerged(RouterMerged(params, p1), p2)

\* C7: the Router's merge gives every field the patch's value if the patch
\* contains the field and the prior value otherwise; two patches over
\* disjoint fields give the same params in either order, a field in both
\* takes the later patch's value, and a field in neither keeps its value.
C7_PatchMergeIsRightBiased ==
  [][(pc = "planner" /\ ReplyValid(llmReply'))
       => LET patch == PlannerParse(llmReply'.raw).out.params_patch
          IN /\ DOMAIN state'.params = DOMAIN state.params \cup DOMAIN patch
             /\ \A k \in DOMAIN state'.params :
                  state'.params[k] = IF k \in DOMAIN patch THEN patch[k]
                                     ELSE state.params[k]
             /\ \A p1, p2 \in {p \in Patches : WellTyped(p)} :
                  /\ DOMAIN p1 \cap DOMAIN p2 = {}
                       => MergedTwice(state.params, p1, p2)
                            = MergedTwice(state.params, p2, p1)
                  /\ \A k \in DOMAIN p1 \cap DOMAIN p2 :
                       MergedTwice(state.params, p1, p2)[k] = p2[k]
                  /\ \A k \in DOMAIN state.params \ (DOMAIN p1 \cup DOMAIN p2) :
                       MergedTwice(state.params, p1, p2)[k] = state.params[k]]_vars

\* the patch replaced the patient intake had found and kept the codes
C7_Witness ==
  /\ LastStage = "planner"
  /\ state.query = QueryBp
  /\ ReplyValid(llmReply)
  /\ Get(Get(llmReply.raw, "params_patch"), "patientId") = PatientP7
  /\ state.params["patientId"] = PatientP7
  /\ state.params["codes"] = Arr(<<SYS, DIA>>)

\* C8: in a run whose route is fetch the trend node runs after data_agent
\* and before summarizer, so that trends is set when the summary is composed.
C8_TrendRunsBeforeSummary ==
  (state.route = "fetch" /\ LastStage = "summarizer")
    => /\ \E i, j, k \in DOMAIN stages :
            /\ i < j /\ j < k
            /\ stages[i] = "data_agent" /\ stages[j] = "trend" /\ stages[k] = "summarizer"
       /\ state.trends # Undef

\* a request to the retrieval collaborator met a failure
RequestFailed == \E i \in DOMAIN sent : sent[i].met # "ok"

RetrievalErrors ==
  {"fetch failed", "MCP initialize failed", "No Mcp-Session-Id returned by server.",
   "tools/call failed"}

\* C9: once a request of the data-fetch stage has failed, the run has ended
\* with that error: the failed request is the last one sent and no request
\* was sent twice, no stage ran after data_agent, summary, trends and bundle
\* are unset, and the handler's response is the error message.
C9_RetrievalFailureEndsRun ==
  RequestFailed
    => /\ pc \in {"threw", "done"}
       /\ error \in RetrievalErrors
       /\ LastStage = "data_agent"
       /\ \A i \in DOMAIN sent : sent[i].met # "ok" => i = Len(sent)
       /\ \A i, j \in DOMAIN sent : sent[i].method = sent[j].method => i = j
       /\ state.summary = Undef /\ state.trends = Undef /\ state.bundle = Undef
       /\ pc = "done"
            => response = [isError |-> TRUE,
                           text |-> [kind |-> "error", prefix |-> "VitalFlow error: ",
                                     msg |-> error]]

\* the session was opened, the search was refused, and the handler has
\* answered with the error
C9_Witness ==
  /\ pc = "done"
  /\ Len(sent) = 2
  /\ sent[1].met = "ok"
  /\ sent[2].method = "tools/call" /\ sent[2].met = "notOk"
  /\ response.isError
  /\ response.text.msg = "tools/call failed"

\* C10: a record with a non-finite value or a timestamp that is no date
\* never aborts a run: observationsToSeries returns normally for the fetched
\* records, and the summarizer does not reject.
C10_BadRecordsNeverAbort ==
  /\ LastStage = "summarizer" => pc # "threw"
  /\ IsObj(state.bundle)
       => ~observationsToSeries(BundleItems(state),
                                Coalesce(Get(state.params, "codes"), Arr(<<>>)).v,
                                env.host).threw

\* a record with a finite value (value, else valueQuantity.value) and a
\* timestamp (when, effectiveDateTime, issued: the first present) that parses
ValidRecord(it, host) ==
  /\ Coalesce(Get(it, "value"), GetIn(it, "valueQuantity", "value")).t = "number"
  /\ Truthy(RawWhen(it))
  /\ DateParse(RawWhen(it).v, host) # InvalidDate

\* the point a valid record stands for
PointOf(it, host) ==
  [t |-> ToISOString(DateParse(RawWhen(it).v, host)),
   v |-> Coalesce(Get(it, "value"), GetIn(it, "valueQuantity", "value"))]

\* every point of the series is the point of a valid record among the items
FromValidRecords(series, items, host) ==
  \A i \in DOMAIN series : \A j \in DOMAIN series[i].points :
    \E k \in DOMAIN items :
      ValidRecord(items[k], host) /\ PointOf(items[k], host) = series[i].points[j]

\* C11: no point of an output Series comes from a record whose value is not
\* a finite number or whose timestamp is missing or unparseable: the series
\* the trend node got from normalizeToSeries (left as they are by the "auto"
\* mode) and those observationsToSeries gives for the same records, when it
\* returns, hold points of valid records only.
C11_PointsComeFromValidRecords ==
  /\ (IsObj(state.trends) /\ env.frequency = "auto")
       => FromValidRecords(state.trends["series"], BundleItems(state), env.host)
  /\ LET r == observationsToSeries(BundleItems(state), TrendCodes(state.params), env.host)
     IN ~r.threw => FromValidRecords(r.series, BundleItems(state), env.host)

\* the trend node built a series from a bundle that holds an invalid record
C11_Witness ==
  /\ IsObj(state.trends)
  /\ env.frequency = "auto"
  /\ Len(state.trends["series"]) > 0
  /\ \E k \in DOMAIN BundleItems(state) : ~ValidRecord(BundleItems(state)[k], env.host)
  /\ Len(observationsToSeries(BundleItems(state), TrendCodes(state.params),
                              env.host).series) > 0

\* the narrative collaborator is not configured, throws, or returns text that
\* is empty once trimmed
NoNarrative(llm) ==
  \/ llm \in {[t |-> "none"], [t |-> "throws"]}
  \/ (llm.t \in {"string", "array"} /\ Trim(contentToString(llm)) = <<>>)

\* what the summarizer may be given in place of a collaborator
Collaborators == Narratives \cup {[t |-> "none"]}

\* the summary is no empty text
NonEmptySummary(summary) ==
  CASE summary.kind = "deterministic" -> Len(summary.lines) > 0
    [] summary.kind = "narrative" -> Len(summary.text) > 0
    [] summary.kind = "message" -> summary.msg # ""
    [] OTHER -> FALSE

\* C12: for every input state and every behaviour of the narrative
\* collaborator the trend-based composer returns normally with a non-empty
\* summary, and without a narrative the summary is the deterministic
\* composition (the fixed message when there is nothing to compose from).
C12_ComposerAlwaysSummarizes ==
  (pc = "summarizer" /\ state.route # "metrics") =>
    \A llm \in Collaborators :
      LET r == summarizer(state, llm, env.host, env.tz)
      IN /\ ~r.threw
         /\ NonEmptySummary(r.s.summary)
         /\ NoNarrative(llm) =>
              r.s.summary.kind = (IF Len(BundleItems(state)) = 0 /\ ~IsObj(state.trends)
                                  THEN "message" ELSE "deterministic")

\* no fetched record holds a numeric value
NoNumericValue(items) ==
  /\ Len(items) > 0
  /\ \A k \in DOMAIN items :
       Coalesce(Get(items[k], "value"), GetIn(items[k], "valueQuantity", "value")).t
         # "number"

\* C13: when every fetched record lacks a numeric value, so that no Series
\* survives, the composer returns the explicit "no data" message, whatever
\* the narrative collaborator does.
C13_NoValuesGiveNoDataMessage ==
  (/\ stages # <<>>
   /\ stages[Len(stages)] = "summarizer"
   /\ pc = "END"
   /\ state.route # "metrics"
   /\ NoNumericValue(BundleItems(state)))
    => state.summary = [kind |-> "message", msg |-> "No observations or trends to summarize."]

\* the rows of the table are in order: later timestamps first, and rows of
\* one timestamp by ascending code
TableOrdered(rows, host) ==
  \A i \in 1..(Len(rows) - 1) :
    (WhenTime(rows[i], host) # InvalidDate /\ WhenTime(rows[i + 1], host) # InvalidDate)
      => \/ TimeDiffSign(WhenTime(rows[i], host), WhenTime(rows[i + 1], host)) < 0
         \/ /\ TimeDiffSign(WhenTime(rows[i], host), WhenTime(rows[i + 1], host)) = 0
            /\ localeCompare(rows[i].codeKey, rows[i + 1].codeKey) <= 0

\* C14: in metrics mode the table holds at most 5 rows for any one code and
\* at most 25 rows in total, ordered by timestamp descending, then by code.
C14_MetricsTableIsCapped ==
  (IsObj(state.summary) /\ state.summary.kind = "table") =>
    LET rows == state.summary.rows
    IN /\ \A i \in DOMAIN rows :
            Cardinality({j \in DOMAIN rows : rows[j].codeKey = rows[i].codeKey}) <= 5
       /\ Len(rows) <= 25
       /\ TableOrdered(rows, env.host)

\* the value of the last point of the series of a code, Null without one
LatestIn(series, code) ==
  LET is == {i \in DOMAIN series : series[i].code = code /\ Len(series[i].points) > 0}
  IN IF is = {} THEN Null
     ELSE LET srs == series[CHOOSE i \in is : TRUE] IN srs.points[Len(srs.points)].v

\* the threshold table: the <<measure, severity>> pairs due for the latest
\* values, Null standing for a measure without a value
TableFlags(sys, dia, hr, sp) ==
  LET bpCrit == Geq(sys, Num(180)) \/ Geq(dia, Num(120))
      bpWarn == ~bpCrit /\ (Geq(sys, Num(160)) \/ Geq(dia, Num(100)))
  IN (IF sys = Null \/ dia = Null THEN {}
      ELSE IF bpCrit THEN {<< <<"B","P">>, "crit" >>}
      ELSE IF bpWarn THEN {<< <<"B","P">>, "warn" >>} ELSE {})
     \cup (IF hr # Null /\ (Greater(hr, Num(130)) \/ Less(hr, Num(40)))
           THEN {<<HR, "warn">>} ELSE {})
     \cup (IF sp = Null THEN {}
           ELSE IF Less(sp, Num(90)) THEN {<<SPO2, "crit">>}
           ELSE IF Less(sp, Num(93)) THEN {<<SPO2, "warn">>} ELSE {})

\* the crit and warn flags, in the order they were raised
Alarms(flags) == SelectSeq(flags, LAMBDA f : f.severity # "info")

\* C15: the crit and warn flags flagsFromStats raises are those of the
\* threshold table for the latest systolic, diastolic, heart-rate and SpO2
\* values, one flag at most for a measure, and the evidence of a
\* blood-pressure flag holds the systolic and the diastolic value.
C15_FlagsFollowThresholdTable ==
  IsObj(state.trends) =>
    LET series == state.trends["series"]
        alarms == Alarms(state.trends["flags"])
    IN /\ {<<alarms[i].code, alarms[i].severity>> : i \in DOMAIN alarms}
            = TableFlags(LatestIn(series, SYS), LatestIn(series, DIA),
                         LatestIn(series, HR), LatestIn(series, SPO2))
       /\ \A i, j \in DOMAIN alarms : alarms[i].code = alarms[j].code => i = j
       /\ \A i \in DOMAIN alarms :
            alarms[i].code = <<"B","P">>
              => alarms[i].evidence.of = <<LatestIn(series, SYS), LatestIn(series, DIA)>>

\* systolic exactly 180 with diastolic 119, heart rate 131 and SpO2 92: a
\* crit for blood pressure and a warn for each of the other two
C15_Witness ==
  /\ IsObj(state.trends)
  /\ LatestIn(state.trends["series"], SYS) = Num(180)
  /\ LatestIn(state.trends["series"], DIA) = Num(119)
  /\ LatestIn(state.trends["series"], HR) = Num(131)
  /\ LatestIn(state.trends["series"], SPO2) = Num(92)
  /\ Len(Alarms(state.trends["flags"])) = 3

\* the slope of the systolic series is at least 2 a day
SystolicRising(stats) ==
  /\ IsObj(StatsOf(stats, SYS))
  /\ "slope" \in DOMAIN StatsOf(stats, SYS)
  /\ Geq(StatsOf(stats, SYS)["slope"], Num(2))

\* C16: whenever the systolic series has a slope of 2 a day or more,
\* flagsFromStats raises the info flag "Systolic rising fast", with or
\* without a diastolic series that has a latest value.
C16_RisingSystolicIsFlagged ==
  (IsObj(state.trends) /\ SystolicRising(state.trends["stats"]))
    => \E i \in DOMAIN state.trends["flags"] :
         /\ state.trends["flags"][i].severity = "info"
         /\ state.trends["flags"][i].rule = "Systolic rising fast"

\* the start, in UTC, of the hour, day or week (from Sunday) that holds the
\* instant ts, as minutes since the epoch
UtcBucketStart(ts, f) ==
  CASE f = "hourly" -> (ts.min \div 60) * 60
    [] f = "daily" -> (ts.min \div 1440) * 1440
    [] f = "weekly" -> ((ts.min \div 1440) - (((ts.min \div 1440) + 4) % 7)) * 1440

\* the values of the points that fall in the bucket starting at k
RECURSIVE ValuesIn(_, _, _, _)
ValuesIn(pts, k, f, host) ==
  IF pts = <<>> THEN <<>>
  ELSE (IF UtcBucketStart(DateParse(Head(pts).t, host), f) = k THEN <<Head(pts).v>>
        ELSE <<>>) \o ValuesIn(Tail(pts), k, f, host)

\* out is the bucketing of the points pts in the mode f
BucketedAs(out, pts, f, host) ==
  /\ {DateParse(out[j].t, host) : j \in DOMAIN out}
       = {DateVal(UtcBucketStart(DateParse(pts[j].t, host), f), 0) : j \in DOMAIN pts}
  /\ \A j \in 1..(Len(out) - 1) :
       TimeDiffSign(DateParse(out[j].t, host), DateParse(out[j + 1].t, host)) > 0
  /\ \A j \in DOMAIN out :
       out[j].v = median(ValuesIn(pts, DateParse(out[j].t, host).min, f, host))

\* C17: in the modes hourly, daily and weekly bucketSeries gives one point
\* for each non-empty bucket, stamped with the UTC start of the bucket, in
\* strictly ascending order, its value the median of the values in the
\* bucket; the mode auto leaves a series of at most 200 points as it is.
C17_OnePointPerUtcBucket ==
  IsObj(state.trends) =>
    LET series == normalizeToSeries(BundleItems(state), TrendCodes(state.params), env.host)
        out == state.trends["series"]
    IN /\ Len(out) = Len(series)
       /\ \A i \in DOMAIN out :
            IF env.frequency = "auto" THEN out[i] = series[i]
            ELSE BucketedAs(out[i].points, series[i].points, env.frequency, env.host)

\* no point is earlier than the one before it
Chronological(pts, host) ==
  \A j \in 1..(Len(pts) - 1) :
    TimeDiffSign(DateParse(pts[j].t, host), DateParse(pts[j + 1].t, host)) >= 0

\* the Stats st are those of the Series srs: its code, and for a series with
\* points the value and the time of the last one
StatsMatch(st, srs) ==
  /\ st["code"] = Str(srs.code)
  /\ Len(srs.points) > 0
       => /\ st["latest"] = srs.points[Len(srs.points)].v
          /\ st["latestAt"] = Str(srs.points[Len(srs.points)].t)

\* C18: the points of every Series are in non-decreasing order of time, as
\* normalization gives them and still after bucketing; the Stats of a
\* Series hold the value and the time of its last point; series and stats
\* of the Trends are paired by code, in one order.
C18_SeriesOrderedAndStatsPaired ==
  IsObj(state.trends) =>
    LET series == state.trends["series"]
        stats == state.trends["stats"]
        plain == normalizeToSeries(BundleItems(state), TrendCodes(state.params), env.host)
    IN /\ \A i \in DOMAIN plain : Chronological(plain[i].points, env.host)
       /\ \A i \in DOMAIN series : Chronological(series[i].points, env.host)
       /\ Len(stats) = Len(series)
       /\ \A i \in DOMAIN series : StatsMatch(stats[i], series[i])

\* the trend node has ordered the systolic readings that came out of order,
\* and paired two series with their stats
C18_Witness ==
  /\ IsObj(state.trends)
  /\ BundleItems(state) = BundleHours
  /\ Len(state.trends["series"]) = 2
  /\ Len(state.trends["stats"]) = 2
  /\ \E i \in DOMAIN state.trends["series"] : Len(state.trends["series"][i].points) > 2

\* the list names no code twice
NoDuplicate(codes) == \A i, j \in DOMAIN codes : codes[i] = codes[j] => i = j

\* C19: after the intake stage and after the Router stage, a params_patch
\* merged or not, params.codes holds no code twice.
C19_CodesHoldNoDuplicate ==
  (stages # <<>> /\ Get(state.params, "codes").t = "array")
    => NoDuplicate(Get(state.params, "codes").v)

\* C20: every search request sent to the retrieval collaborator carries a
\* count of 200 at most and maxItems no greater than the configured cap,
\* whatever intake, the caller or the Router put into params.
C20_SearchRequestsAreCapped ==
  \A i \in DOMAIN sent :
    sent[i].method = "tools/call"
      => /\ ~Greater(sent[i].arguments.count, Num(200))
         /\ ~Greater(sent[i].arguments.maxItems, Num(500))

\* params hold no patient, or no code
LacksPatientOrCodes(params) ==
  \/ ~Truthy(Get(params, "patientId"))
  \/ Get(params, "codes").t # "array"
  \/ Len(Get(params, "codes").v) = 0

\* C25: when params lack a patientId or have no codes the data-fetch stage
\* sends no request of any kind, cannot fail, and returns the state with an
\* empty bundle and every other field unchanged.
C25_ShortCircuitSendsNothing ==
  [][(pc = "data_agent" /\ LacksPatientOrCodes(state.params))
       => /\ sent' = sent
          /\ pc' # "threw"
          /\ state' = [state EXCEPT !.bundle = EmptyBundle]]_vars

\* the canonical code by the priority: system|code, else the LOINC-prefixed
\* loinc field, else the bare code.code, else "unknown"
CodeByPriority(it) ==
  IF Truthy(GetIn(it, "code", "system")) /\ Truthy(GetIn(it, "code", "code"))
  THEN GetIn(it, "code", "system").v \o <<"|">> \o GetIn(it, "code", "code").v
  ELSE IF Truthy(Get(it, "loinc")) THEN LOINC \o <<"|">> \o Get(it, "loinc").v
  ELSE IF Truthy(GetIn(it, "code", "code")) THEN GetIn(it, "code", "code").v
  ELSE Unknown

\* C23: for every observation record the three series-building paths
\* (normalizeToSeries, observationsToSeries, the metrics row builder) assign
\* one canonical code, the one the priority gives.
C23_OneCanonicalCodeOnEveryPath ==
  \A k \in DOMAIN BundleItems(state) :
    LET it == BundleItems(state)[k]
    IN /\ canonicalCode(it) = CodeByPriority(it)
       /\ ObsCode(it) = CodeByPriority(it)
       /\ normalizeRaw(it).codeKey = CodeByPriority(it)

\* code is a requested code, the bare form of one, or the LOINC-prefixed form
\* of one
MatchesRequested(code, requestedCodes) ==
  \E i \in DOMAIN requestedCodes :
    \/ code = requestedCodes[i]
    \/ code = stripSystem(requestedCodes[i])
    \/ code = joinSystemCode(LOINC, stripSystem(requestedCodes[i]))

\* C22: when requested codes are supplied, every Series the trend node got
\* from normalizeToSeries has a canonical code that is a requested code, its bare form or its
\* LOINC-prefixed form; a Series under another coding system is dropped even
\* when its bare code part is a requested one.
C22_SeriesMatchRequestedCodes ==
  (IsObj(state.trends) /\ Len(TrendCodes(state.params)) # 0) =>
    \A i \in DOMAIN state.trends["series"] :
      MatchesRequested(state.trends["series"][i].code, TrendCodes(state.params))

\* C21: after any sequence of getMcpClient calls, calls with one thread id
\* have all returned one handle (constructed by the first of them), calls
\* with different thread ids have returned different handles, and as many
\* clients have been constructed as distinct thread ids were seen.
C21_OneClientPerThreadId ==
  /\ \A i, j \in DOMAIN calls :
       (calls[i].threadId = calls[j].threadId) <=> (calls[i].c = calls[j].c)
  /\ \A i \in DOMAIN calls : clientsByThread[calls[i].threadId] = calls[i].c
  /\ Len(clients) = Cardinality({calls[i].threadId : i \in DOMAIN calls})

\* a thread id was seen, then another one, then the first again
C21_Witness ==
  /\ Len(calls) = 3
  /\ calls[1].threadId # calls[2].threadId
  /\ calls[3].threadId = calls[1].threadId
  /\ calls[3].c = calls[1].c

Initializes(cl) == {k \in DOMAIN cl.sent : cl.sent[k].method = "initialize"}

\* no initialize request of the client has failed
NoneFailed(cl) == \A k \in Initializes(cl) : cl.sent[k].met \in {"pending", "ok"}

\* an initialize request of the client fails in this step
InitializeFails(c) ==
  \E k \in Initializes(clients[c]) :
    /\ clients[c].sent[k].met = "pending"
    /\ clients'[c].sent[k].met \notin {"pending", "ok"}

\* C24: however the invocations that share a client interleave, the client
\* has posted at most one initialize request as long as none has failed, a
\* session id once set never changes, and a failed initialisation leaves the
\* session id unset.
C24_OneInitializePerClient ==
  [][\A c \in DOMAIN clients' :
       /\ NoneFailed(clients'[c]) => Cardinality(Initializes(clients'[c])) <= 1
       /\ (c \in DOMAIN clients /\ Truthy(clients[c].sessionId))
            => clients'[c].sessionId = clients[c].sessionId
       /\ (c \in DOMAIN clients /\ ~Truthy(clients[c].sessionId) /\ InitializeFails(c))
            => ~Truthy(clients'[c].sessionId)]_vars
====
